---------------------------- MODULE Spec2Model ----------------------------
(***************************************************************************)
(* Bedrock streaming pipeline of the chat-generation dispatch layer:       *)
(*   AWS EventStream binary frames -> SSE events  (stream.demuxer.aws-eventstream.ts) *)
(*   SSE events -> particles                      (bedrock-converse.parser.ts)        *)
(*                                                                         *)
(* Text is a sequence of character codes; a byte is a number 0..255.       *)
(* A JSON value is a tagged record: [t |-> "obj", v |-> <record>],         *)
(* [t |-> "str", v |-> <string>], [t |-> "num", v |-> <number>]; a string   *)
(* that the code turns into an event name or decodes as base64 is text.    *)
(***************************************************************************)
EXTENDS Integers, Sequences, FiniteSets, TLC

(***************************************************************************)
(* Bounds of the model.                                                    *)
(***************************************************************************)
\* events handed to one parser instance in SpecParser
MaxEvents == 3
\* largest chunk of the response body, besides "all that remains", in SpecStream
MaxChunk == 3
\* the longest canonical chat sequence handed to the adapter
MaxMessages == 3
\* the most bytes of one chunk of a body when two calls run at once
MaxCallChunk == 100
\* the most content blocks of the message of a non-streaming response
MaxBlocks == 3
MaxDeltas == 3

(***************************************************************************)
(* Header names, message types and event names, as text.                   *)
(***************************************************************************)
\* ':event-type'
S_eventType == <<58, 101, 118, 101, 110, 116, 45, 116, 121, 112, 101>>
\* ':message-type'
S_messageType == <<58, 109, 101, 115, 115, 97, 103, 101, 45, 116, 121, 112, 101>>
\* 'exception'
S_exception == <<101, 120, 99, 101, 112, 116, 105, 111, 110>>
\* 'error'
S_error == <<101, 114, 114, 111, 114>>
\* 'event'
S_event == <<101, 118, 101, 110, 116>>
\* 'chunk'
S_chunk == <<99, 104, 117, 110, 107>>
\* 'messageStart'
S_messageStart == <<109, 101, 115, 115, 97, 103, 101, 83, 116, 97, 114, 116>>
\* 'contentBlockStart'
S_contentBlockStart == <<99, 111, 110, 116, 101, 110, 116, 66, 108, 111, 99, 107, 83, 116, 97, 114, 116>>
\* 'contentBlockDelta'
S_contentBlockDelta == <<99, 111, 110, 116, 101, 110, 116, 66, 108, 111, 99, 107, 68, 101, 108, 116, 97>>
\* 'contentBlockStop'
S_contentBlockStop == <<99, 111, 110, 116, 101, 110, 116, 66, 108, 111, 99, 107, 83, 116, 111, 112>>
\* 'messageStop'
S_messageStop == <<109, 101, 115, 115, 97, 103, 101, 83, 116, 111, 112>>
\* 'metadata'
S_metadata == <<109, 101, 116, 97, 100, 97, 116, 97>>
\* 'modelStreamErrorException'
S_modelStreamErrorException == <<109, 111, 100, 101, 108, 83, 116, 114, 101, 97, 109, 69, 114, 114, 111, 114, 69, 120, 99, 101, 112, 116, 105, 111, 110>>
\* 'internalServerException'
S_internalServerException == <<105, 110, 116, 101, 114, 110, 97, 108, 83, 101, 114, 118, 101, 114, 69, 120, 99, 101, 112, 116, 105, 111, 110>>
\* 'modelTimeoutException'
S_modelTimeoutException == <<109, 111, 100, 101, 108, 84, 105, 109, 101, 111, 117, 116, 69, 120, 99, 101, 112, 116, 105, 111, 110>>
\* 'throttlingException'
S_throttlingException == <<116, 104, 114, 111, 116, 116, 108, 105, 110, 103, 69, 120, 99, 101, 112, 116, 105, 111, 110>>
\* 'validationException'
S_validationException == <<118, 97, 108, 105, 100, 97, 116, 105, 111, 110, 69, 120, 99, 101, 112, 116, 105, 111, 110>>
\* 'serviceUnavailableException'
S_serviceUnavailableException == <<115, 101, 114, 118, 105, 99, 101, 85, 110, 97, 118, 97, 105, 108, 97, 98, 108, 101, 69, 120, 99, 101, 112, 116, 105, 111, 110>>
\* 'ping'
S_ping == <<112, 105, 110, 103>>

(***************************************************************************)
(* Event payloads, as text.                                                *)
(***************************************************************************)
\* ''
T_empty == <<>>
\* 'oops'
T_notJson == <<111, 111, 112, 115>>
\* '{}'
T_emptyObj == <<123, 125>>
\* '{"role":"assistant"}'
T_roleAssistant == <<123, 34, 114, 111, 108, 101, 34, 58, 34, 97, 115, 115, 105, 115, 116, 97, 110, 116, 34, 125>>
\* '{"role":"user"}'
T_roleUser == <<123, 34, 114, 111, 108, 101, 34, 58, 34, 117, 115, 101, 114, 34, 125>>
\* '{"contentBlockIndex":1,"start":{"toolUse":{"toolUseId":"t1","name":"f"}}}'
T_startTool1 == <<123, 34, 99, 111, 110, 116, 101, 110, 116, 66, 108, 111, 99, 107, 73, 110, 100, 101, 120, 34, 58, 49, 44, 34, 115, 116, 97, 114, 116, 34, 58, 123, 34, 116, 111, 111, 108, 85, 115, 101, 34, 58, 123, 34, 116, 111, 111, 108, 85, 115, 101, 73, 100, 34, 58, 34, 116, 49, 34, 44, 34, 110, 97, 109, 101, 34, 58, 34, 102, 34, 125, 125, 125>>
\* '{"contentBlockIndex":2,"start":{"toolUse":{"toolUseId":"t2","name":"g"}}}'
T_startTool2 == <<123, 34, 99, 111, 110, 116, 101, 110, 116, 66, 108, 111, 99, 107, 73, 110, 100, 101, 120, 34, 58, 50, 44, 34, 115, 116, 97, 114, 116, 34, 58, 123, 34, 116, 111, 111, 108, 85, 115, 101, 34, 58, 123, 34, 116, 111, 111, 108, 85, 115, 101, 73, 100, 34, 58, 34, 116, 50, 34, 44, 34, 110, 97, 109, 101, 34, 58, 34, 103, 34, 125, 125, 125>>
\* '{"contentBlockIndex":0,"start":{}}'
T_startText == <<123, 34, 99, 111, 110, 116, 101, 110, 116, 66, 108, 111, 99, 107, 73, 110, 100, 101, 120, 34, 58, 48, 44, 34, 115, 116, 97, 114, 116, 34, 58, 123, 125, 125>>
\* '{"contentBlockIndex":0,"delta":{"text":"a"}}'
T_deltaText == <<123, 34, 99, 111, 110, 116, 101, 110, 116, 66, 108, 111, 99, 107, 73, 110, 100, 101, 120, 34, 58, 48, 44, 34, 100, 101, 108, 116, 97, 34, 58, 123, 34, 116, 101, 120, 116, 34, 58, 34, 97, 34, 125, 125>>
\* '{"contentBlockIndex":1,"delta":{"toolUse":{"input":"{"}}}'
T_deltaTool == <<123, 34, 99, 111, 110, 116, 101, 110, 116, 66, 108, 111, 99, 107, 73, 110, 100, 101, 120, 34, 58, 49, 44, 34, 100, 101, 108, 116, 97, 34, 58, 123, 34, 116, 111, 111, 108, 85, 115, 101, 34, 58, 123, 34, 105, 110, 112, 117, 116, 34, 58, 34, 123, 34, 125, 125, 125>>
\* '{"contentBlockIndex":0,"delta":{"text":"b"}}'
T_deltaTextB == <<123, 34, 99, 111, 110, 116, 101, 110, 116, 66, 108, 111, 99, 107, 73, 110, 100, 101, 120, 34, 58, 48, 44, 34, 100, 101, 108, 116, 97, 34, 58, 123, 34, 116, 101, 120, 116, 34, 58, 34, 98, 34, 125, 125>>
\* '{"contentBlockIndex":1,"delta":{"toolUse":{"input":"}"}}}'
T_deltaToolB == <<123, 34, 99, 111, 110, 116, 101, 110, 116, 66, 108, 111, 99, 107, 73, 110, 100, 101, 120, 34, 58, 49, 44, 34, 100, 101, 108, 116, 97, 34, 58, 123, 34, 116, 111, 111, 108, 85, 115, 101, 34, 58, 123, 34, 105, 110, 112, 117, 116, 34, 58, 34, 125, 34, 125, 125, 125>>
\* '{"contentBlockIndex":0}'
T_blockStop == <<123, 34, 99, 111, 110, 116, 101, 110, 116, 66, 108, 111, 99, 107, 73, 110, 100, 101, 120, 34, 58, 48, 125>>
\* '{"stopReason":"end_turn"}'
T_stopEndTurn == <<123, 34, 115, 116, 111, 112, 82, 101, 97, 115, 111, 110, 34, 58, 34, 101, 110, 100, 95, 116, 117, 114, 110, 34, 125>>
\* '{"stopReason":"stop_sequence"}'
T_stopStopSequence == <<123, 34, 115, 116, 111, 112, 82, 101, 97, 115, 111, 110, 34, 58, 34, 115, 116, 111, 112, 95, 115, 101, 113, 117, 101, 110, 99, 101, 34, 125>>
\* '{"stopReason":"tool_use"}'
T_stopToolUse == <<123, 34, 115, 116, 111, 112, 82, 101, 97, 115, 111, 110, 34, 58, 34, 116, 111, 111, 108, 95, 117, 115, 101, 34, 125>>
\* '{"stopReason":"max_tokens"}'
T_stopMaxTokens == <<123, 34, 115, 116, 111, 112, 82, 101, 97, 115, 111, 110, 34, 58, 34, 109, 97, 120, 95, 116, 111, 107, 101, 110, 115, 34, 125>>
\* '{"stopReason":"guardrail_intervened"}'
T_stopGuardrail == <<123, 34, 115, 116, 111, 112, 82, 101, 97, 115, 111, 110, 34, 58, 34, 103, 117, 97, 114, 100, 114, 97, 105, 108, 95, 105, 110, 116, 101, 114, 118, 101, 110, 101, 100, 34, 125>>
\* '{"stopReason":"content_filtered"}'
T_stopFiltered == <<123, 34, 115, 116, 111, 112, 82, 101, 97, 115, 111, 110, 34, 58, 34, 99, 111, 110, 116, 101, 110, 116, 95, 102, 105, 108, 116, 101, 114, 101, 100, 34, 125>>
\* '{"stopReason":"model_context_window_exceeded"}'
T_stopUnknown == <<123, 34, 115, 116, 111, 112, 82, 101, 97, 115, 111, 110, 34, 58, 34, 109, 111, 100, 101, 108, 95, 99, 111, 110, 116, 101, 120, 116, 95, 119, 105, 110, 100, 111, 119, 95, 101, 120, 99, 101, 101, 100, 101, 100, 34, 125>>
\* '{"usage":{"inputTokens":1,"outputTokens":2}}'
T_usage == <<123, 34, 117, 115, 97, 103, 101, 34, 58, 123, 34, 105, 110, 112, 117, 116, 84, 111, 107, 101, 110, 115, 34, 58, 49, 44, 34, 111, 117, 116, 112, 117, 116, 84, 111, 107, 101, 110, 115, 34, 58, 50, 125, 125>>
\* '{"usage":{"inputTokens":1,"outputTokens":2},"metrics":{"latencyMs":3}}'
T_usageLatency == <<123, 34, 117, 115, 97, 103, 101, 34, 58, 123, 34, 105, 110, 112, 117, 116, 84, 111, 107, 101, 110, 115, 34, 58, 49, 44, 34, 111, 117, 116, 112, 117, 116, 84, 111, 107, 101, 110, 115, 34, 58, 50, 125, 44, 34, 109, 101, 116, 114, 105, 99, 115, 34, 58, 123, 34, 108, 97, 116, 101, 110, 99, 121, 77, 115, 34, 58, 51, 125, 125>>
\* '{"usage":{"inputTokens":1,"outputTokens":2},"metrics":{"latencyMs":0}}'
T_usageLatency0 == <<123, 34, 117, 115, 97, 103, 101, 34, 58, 123, 34, 105, 110, 112, 117, 116, 84, 111, 107, 101, 110, 115, 34, 58, 49, 44, 34, 111, 117, 116, 112, 117, 116, 84, 111, 107, 101, 110, 115, 34, 58, 50, 125, 44, 34, 109, 101, 116, 114, 105, 99, 115, 34, 58, 123, 34, 108, 97, 116, 101, 110, 99, 121, 77, 115, 34, 58, 48, 125, 125>>
\* '{"message":"x"}'
T_errMessage == <<123, 34, 109, 101, 115, 115, 97, 103, 101, 34, 58, 34, 120, 34, 125>>
\* 'message_stop'
S_message_stop == <<109, 101, 115, 115, 97, 103, 101, 95, 115, 116, 111, 112>>
\* '{"type":"error","error":{"type":"transform_error","message":"Failed to decode EventStream frame"}}'
T_transformError == <<123, 34, 116, 121, 112, 101, 34, 58, 34, 101, 114, 114, 111, 114, 34, 44, 34, 101, 114, 114, 111, 114, 34, 58, 123, 34, 116, 121, 112, 101, 34, 58, 34, 116, 114, 97, 110, 115, 102, 111, 114, 109, 95, 101, 114, 114, 111, 114, 34, 44, 34, 109, 101, 115, 115, 97, 103, 101, 34, 58, 34, 70, 97, 105, 108, 101, 100, 32, 116, 111, 32, 100, 101, 99, 111, 100, 101, 32, 69, 118, 101, 110, 116, 83, 116, 114, 101, 97, 109, 32, 102, 114, 97, 109, 101, 34, 125, 125>>
\* '{"type":"error","error":{"type":"'
T_errorHead == <<123, 34, 116, 121, 112, 101, 34, 58, 34, 101, 114, 114, 111, 114, 34, 44, 34, 101, 114, 114, 111, 114, 34, 58, 123, 34, 116, 121, 112, 101, 34, 58, 34>>
\* '","message":'
T_errorMid == <<34, 44, 34, 109, 101, 115, 115, 97, 103, 101, 34, 58>>
\* '}}'
T_errorTail == <<125, 125>>
\* '{"type":"error","error":{"type":"throttlingException","message":"{\"message\":\"x\"}"}}'
T_throttlingError == <<123, 34, 116, 121, 112, 101, 34, 58, 34, 101, 114, 114, 111, 114, 34, 44, 34, 101, 114, 114, 111, 114, 34, 58, 123, 34, 116, 121, 112, 101, 34, 58, 34, 116, 104, 114, 111, 116, 116, 108, 105, 110, 103, 69, 120, 99, 101, 112, 116, 105, 111, 110, 34, 44, 34, 109, 101, 115, 115, 97, 103, 101, 34, 58, 34, 123, 92, 34, 109, 101, 115, 115, 97, 103, 101, 92, 34, 58, 92, 34, 120, 92, 34, 125, 34, 125, 125>>
\* '{"type":"message_stop"}'
T_innerStop == <<123, 34, 116, 121, 112, 101, 34, 58, 34, 109, 101, 115, 115, 97, 103, 101, 95, 115, 116, 111, 112, 34, 125>>
\* 'eyJ0eXBlIjoibWVzc2FnZV9zdG9wIn0='
T_b64InnerStop == <<101, 121, 74, 48, 101, 88, 66, 108, 73, 106, 111, 105, 98, 87, 86, 122, 99, 50, 70, 110, 90, 86, 57, 122, 100, 71, 57, 119, 73, 110, 48, 61>>
\* 'e30='
T_b64EmptyObj == <<101, 51, 48, 61>>
\* 'b29wcw=='
T_b64NotJson == <<98, 50, 57, 119, 99, 119, 61, 61>>
\* '!!!!'
T_b64Invalid == <<33, 33, 33, 33>>
\* '{"bytes":"eyJ0eXBlIjoibWVzc2FnZV9zdG9wIn0="}'
T_wrapBytes == <<123, 34, 98, 121, 116, 101, 115, 34, 58, 34, 101, 121, 74, 48, 101, 88, 66, 108, 73, 106, 111, 105, 98, 87, 86, 122, 99, 50, 70, 110, 90, 86, 57, 122, 100, 71, 57, 119, 73, 110, 48, 61, 34, 125>>
\* '{"chunk":{"bytes":"eyJ0eXBlIjoibWVzc2FnZV9zdG9wIn0="}}'
T_wrapChunkBytes == <<123, 34, 99, 104, 117, 110, 107, 34, 58, 123, 34, 98, 121, 116, 101, 115, 34, 58, 34, 101, 121, 74, 48, 101, 88, 66, 108, 73, 106, 111, 105, 98, 87, 86, 122, 99, 50, 70, 110, 90, 86, 57, 122, 100, 71, 57, 119, 73, 110, 48, 61, 34, 125, 125>>
\* '{"bytes":"e30="}'
T_wrapNoType == <<123, 34, 98, 121, 116, 101, 115, 34, 58, 34, 101, 51, 48, 61, 34, 125>>
\* '{"bytes":"b29wcw=="}'
T_wrapNotJson == <<123, 34, 98, 121, 116, 101, 115, 34, 58, 34, 98, 50, 57, 119, 99, 119, 61, 61, 34, 125>>
\* '{"bytes":"!!!!"}'
T_wrapInvalid == <<123, 34, 98, 121, 116, 101, 115, 34, 58, 34, 33, 33, 33, 33, 34, 125>>

(***************************************************************************)
(* JSON values of the payloads above.                                      *)
(***************************************************************************)
JObj(f) == [t |-> "obj", v |-> f]
JStr(s) == [t |-> "str", v |-> s]
JNum(n) == [t |-> "num", v |-> n]

J_stop(reason) == JObj([stopReason |-> JStr(reason)])
J_usage == JObj([inputTokens |-> JNum(1), outputTokens |-> JNum(2)])
J_startTool(index, id, name) ==
  JObj([contentBlockIndex |-> JNum(index),
        start |-> JObj([toolUse |-> JObj([toolUseId |-> JStr(id), name |-> JStr(name)])])])

\* JSON.parse on the payload texts of the model: every text listed here is
\* the JSON document beside it; every other text of the model is not JSON.
JsonTable ==
  << [text |-> T_emptyObj,        doc |-> JObj(<<>>)],
     [text |-> T_roleAssistant,   doc |-> JObj([role |-> JStr("assistant")])],
     [text |-> T_roleUser,        doc |-> JObj([role |-> JStr("user")])],
     [text |-> T_startTool1,      doc |-> J_startTool(1, "t1", "f")],
     [text |-> T_startTool2,      doc |-> J_startTool(2, "t2", "g")],
     [text |-> T_startText,       doc |-> JObj([contentBlockIndex |-> JNum(0), start |-> JObj(<<>>)])],
     [text |-> T_deltaText,       doc |-> JObj([contentBlockIndex |-> JNum(0), delta |-> JObj([text |-> JStr("a")])])],
     [text |-> T_deltaTool,       doc |-> JObj([contentBlockIndex |-> JNum(1),
                                                delta |-> JObj([toolUse |-> JObj([input |-> JStr("{")])])])],
     [text |-> T_deltaTextB,      doc |-> JObj([contentBlockIndex |-> JNum(0), delta |-> JObj([text |-> JStr("b")])])],
     [text |-> T_deltaToolB,      doc |-> JObj([contentBlockIndex |-> JNum(1),
                                                delta |-> JObj([toolUse |-> JObj([input |-> JStr("}")])])])],
     [text |-> T_blockStop,       doc |-> JObj([contentBlockIndex |-> JNum(0)])],
     [text |-> T_stopEndTurn,     doc |-> J_stop("end_turn")],
     [text |-> T_stopStopSequence, doc |-> J_stop("stop_sequence")],
     [text |-> T_stopToolUse,     doc |-> J_stop("tool_use")],
     [text |-> T_stopMaxTokens,   doc |-> J_stop("max_tokens")],
     [text |-> T_stopGuardrail,   doc |-> J_stop("guardrail_intervened")],
     [text |-> T_stopFiltered,    doc |-> J_stop("content_filtered")],
     [text |-> T_stopUnknown,     doc |-> J_stop("model_context_window_exceeded")],
     [text |-> T_usage,           doc |-> JObj([usage |-> J_usage])],
     [text |-> T_usageLatency,    doc |-> JObj([usage |-> J_usage, metrics |-> JObj([latencyMs |-> JNum(3)])])],
     [text |-> T_usageLatency0,   doc |-> JObj([usage |-> J_usage, metrics |-> JObj([latencyMs |-> JNum(0)])])],
     [text |-> T_errMessage,      doc |-> JObj([message |-> JStr("x")])],
     [text |-> T_throttlingError, doc |-> JObj([type |-> JStr(S_error),
                                                error |-> JObj([type |-> JStr(S_throttlingException),
                                                                message |-> JStr(T_errMessage)])])],
     [text |-> T_transformError,  doc |-> JObj([type |-> JStr(S_error),
                                                error |-> JObj([type |-> JStr("transform_error"),
                                                                message |-> JStr("Failed to decode EventStream frame")])])],
     [text |-> T_innerStop,       doc |-> JObj([type |-> JStr(S_message_stop)])],
     [text |-> T_wrapBytes,       doc |-> JObj([bytes |-> JStr(T_b64InnerStop)])],
     [text |-> T_wrapChunkBytes,  doc |-> JObj([chunk |-> JObj([bytes |-> JStr(T_b64InnerStop)])])],
     [text |-> T_wrapNoType,      doc |-> JObj([bytes |-> JStr(T_b64EmptyObj)])],
     [text |-> T_wrapNotJson,     doc |-> JObj([bytes |-> JStr(T_b64NotJson)])],
     [text |-> T_wrapInvalid,     doc |-> JObj([bytes |-> JStr(T_b64Invalid)])] >>

\* JSON.parse(text): the document, or a SyntaxError
JSONParse(text) ==
  LET hits == {i \in 1..Len(JsonTable) : JsonTable[i].text = text}
  IN  IF hits = {} THEN [ok |-> FALSE]
      ELSE [ok |-> TRUE, doc |-> JsonTable[CHOOSE i \in hits : TRUE].doc]

Has(j, k) == j.t = "obj" /\ k \in DOMAIN j.v
HasStr(j, k) == Has(j, k) /\ j.v[k].t = "str"
HasNum(j, k) == Has(j, k) /\ j.v[k].t = "num"
HasObj(j, k) == Has(j, k) /\ j.v[k].t = "obj"

(***************************************************************************)
(* Wire schemas of the Converse stream events (zod: an object schema       *)
(* requires its keys and strips the others; a union takes its first        *)
(* matching member).                                                       *)
(***************************************************************************)
event_MessageStart_schema(j) ==
  IF HasStr(j, "role") THEN [ok |-> TRUE, role |-> j.v.role.v] ELSE [ok |-> FALSE]

event_ContentBlockStart_schema(j) ==
  IF HasNum(j, "contentBlockIndex") /\ HasObj(j, "start")
  THEN LET s == j.v.start
       IN  IF HasObj(s, "toolUse") /\ HasStr(s.v.toolUse, "toolUseId") /\ HasStr(s.v.toolUse, "name")
           THEN [ok |-> TRUE, toolUse |-> TRUE,
                 toolUseId |-> s.v.toolUse.v.toolUseId.v, name |-> s.v.toolUse.v.name.v]
           ELSE [ok |-> TRUE, toolUse |-> FALSE]
  ELSE [ok |-> FALSE]

event_ContentBlockDelta_schema(j) ==
  IF HasNum(j, "contentBlockIndex") /\ HasObj(j, "delta")
  THEN LET d == j.v.delta
       IN  IF HasStr(d, "text") THEN [ok |-> TRUE, member |-> "text", text |-> d.v.text.v]
           ELSE IF HasObj(d, "toolUse") /\ HasStr(d.v.toolUse, "input")
                THEN [ok |-> TRUE, member |-> "toolUse", input |-> d.v.toolUse.v.input.v]
                ELSE [ok |-> FALSE]
  ELSE [ok |-> FALSE]

event_ContentBlockStop_schema(j) ==
  IF HasNum(j, "contentBlockIndex") THEN [ok |-> TRUE] ELSE [ok |-> FALSE]

event_MessageStop_schema(j) ==
  IF HasStr(j, "stopReason") THEN [ok |-> TRUE, stopReason |-> j.v.stopReason.v] ELSE [ok |-> FALSE]

event_Metadata_schema(j) ==
  IF /\ HasObj(j, "usage")
     /\ HasNum(j.v.usage, "inputTokens") /\ HasNum(j.v.usage, "outputTokens")
     /\ (Has(j, "metrics") => HasObj(j, "metrics") /\ HasNum(j.v.metrics, "latencyMs"))
  THEN [ok |-> TRUE, inputTokens |-> j.v.usage.v.inputTokens.v,
        outputTokens |-> j.v.usage.v.outputTokens.v,
        hasMetrics |-> Has(j, "metrics"),
        latencyMs |-> IF Has(j, "metrics") THEN j.v.metrics.v.latencyMs.v ELSE 0]
  ELSE [ok |-> FALSE]

(***************************************************************************)
(* Particles: the calls the parser makes on the particle transmitter.      *)
(***************************************************************************)
P_startFunctionCallInvocation(id, name) == <<"tool-call-start", id, name>>
P_appendFunctionCallInvocationArgs(id, args) == <<"tool-call-arg-append", id, args>>
P_appendText(text) == <<"text-append", text>>
P_endMessagePart == <<"part-end">>
P_setTokenStopReason(reason) == <<"stop-reason", reason>>
P_setDialectEnded == <<"stream-ended", "done-dialect">>
P_setDialectTerminatingIssue(message) == <<"terminating-issue", "Bedrock Converse parse error", message>>
\* dtInner is carried only when metrics.latencyMs is truthy
P_updateMetrics(TIn, TOut, dtInner) == <<"metrics-update", TIn, TOut, dtInner>>

IsTerminal(p) == p[1] \in {"stream-ended", "terminating-issue"}

(***************************************************************************)
(* _fromConverseStopReason: <<reason>>, or <<>> for null                   *)
(***************************************************************************)
\* variant for C9: tool_use is read as a plain end of turn
FromConverseStopReason_ToolUseAsOk(stopReason) ==
  CASE stopReason \in {"end_turn", "stop_sequence", "tool_use"} -> <<"ok">>
    [] stopReason = "max_tokens" -> <<"out-of-tokens">>
    [] stopReason \in {"guardrail_intervened", "content_filtered"} -> <<"filter-content">>
    [] OTHER -> <<>>

\* variant for C35: the two filter reasons are read as a plain end of turn
FromConverseStopReason_FilteredAsOk(stopReason) ==
  CASE stopReason \in {"end_turn", "stop_sequence", "guardrail_intervened", "content_filtered"} -> <<"ok">>
    [] stopReason = "tool_use" -> <<"ok-tool_invocations">>
    [] stopReason = "max_tokens" -> <<"out-of-tokens">>
    [] OTHER -> <<>>

FromConverseStopReason(stopReason) ==
  CASE stopReason \in {"end_turn", "stop_sequence"} -> <<"ok">>
    [] stopReason = "tool_use" -> <<"ok-tool_invocations">>
    [] stopReason = "max_tokens" -> <<"out-of-tokens">>
    [] stopReason \in {"guardrail_intervened", "content_filtered"} -> <<"filter-content">>
    [] OTHER -> <<>>

(***************************************************************************)
(* createBedrockConverseStreamParser: one call of the returned function.   *)
(* cur is currentToolUseId: <<>> for null, <<id>> for a string.            *)
(* An event is [named, name, data]; named = FALSE is eventName undefined.  *)
(***************************************************************************)
Ret(err, cur, out) == [hasErrored |-> err, currentToolUseId |-> cur, out |-> out]

\* variant for C6: the catch block reports the issue and leaves the flag unset
Caught_FlagNotSet(cur, message) == Ret(FALSE, cur, <<P_setDialectTerminatingIssue(message)>>)

\* the catch block
Caught(cur, message) == Ret(TRUE, cur, <<P_setDialectTerminatingIssue(message)>>)

Truthy(cur) == cur # <<>> /\ cur[1] # ""

\* variant for C26: a role other than assistant is an error
OnMessageStart_RejectsRole(cur, doc) ==
  LET r == event_MessageStart_schema(doc)
  IN  IF ~r.ok THEN Caught(cur, "ZodError")
      ELSE IF r.role # event_MessageStart_schema(JSONParse(T_roleAssistant).doc).role
      THEN Caught(cur, "Unexpected role in messageStart")
      ELSE Ret(FALSE, cur, <<>>)

OnMessageStart(cur, doc) ==
  LET r == event_MessageStart_schema(doc)
  IN  IF ~r.ok THEN Caught(cur, "ZodError") ELSE Ret(FALSE, cur, <<>>)

\* variant for C28: the tool-call start is emitted and its id is not kept
OnContentBlockStart_ForgetsToolUseId(cur, doc) ==
  LET r == event_ContentBlockStart_schema(doc)
  IN  IF ~r.ok THEN Caught(cur, "ZodError")
      ELSE IF r.toolUse
           THEN Ret(FALSE, cur, <<P_startFunctionCallInvocation(r.toolUseId, r.name)>>)
           ELSE Ret(FALSE, cur, <<>>)

OnContentBlockStart(cur, doc) ==
  LET r == event_ContentBlockStart_schema(doc)
  IN  IF ~r.ok THEN Caught(cur, "ZodError")
      ELSE IF r.toolUse
           THEN Ret(FALSE, <<r.toolUseId>>, <<P_startFunctionCallInvocation(r.toolUseId, r.name)>>)
           ELSE Ret(FALSE, cur, <<>>)

\* variant for C11: a tool-input delta with no open tool id is an error
OnContentBlockDelta_NeedsToolUseId(cur, doc) ==
  LET r == event_ContentBlockDelta_schema(doc)
  IN  IF ~r.ok THEN Caught(cur, "ZodError")
      ELSE IF r.member = "text" THEN Ret(FALSE, cur, <<P_appendText(r.text)>>)
           ELSE IF Truthy(cur)
                THEN Ret(FALSE, cur, <<P_appendFunctionCallInvocationArgs(cur[1], r.input)>>)
                ELSE Caught(cur, "no open tool call")

OnContentBlockDelta(cur, doc) ==
  LET r == event_ContentBlockDelta_schema(doc)
  IN  IF ~r.ok THEN Caught(cur, "ZodError")
      ELSE IF r.member = "text" THEN Ret(FALSE, cur, <<P_appendText(r.text)>>)
           ELSE IF Truthy(cur)
                THEN Ret(FALSE, cur, <<P_appendFunctionCallInvocationArgs(cur[1], r.input)>>)
                ELSE Ret(FALSE, cur, <<>>)

\* variant for C7: contentBlockStop ends the part and keeps the tool id
OnContentBlockStop_KeepsToolUseId(cur, doc) ==
  LET r == event_ContentBlockStop_schema(doc)
  IN  IF ~r.ok THEN Caught(cur, "ZodError") ELSE Ret(FALSE, cur, <<P_endMessagePart>>)

OnContentBlockStop(cur, doc) ==
  LET r == event_ContentBlockStop_schema(doc)
  IN  IF ~r.ok THEN Caught(cur, "ZodError") ELSE Ret(FALSE, <<>>, <<P_endMessagePart>>)

\* variant for C29: messageStop sets the stop reason and does not end the dialect
OnMessageStop_NoDialectEnd(cur, doc) ==
  LET r == event_MessageStop_schema(doc)
  IN  IF ~r.ok THEN Caught(cur, "ZodError")
      ELSE LET tokenStopReason == FromConverseStopReason(r.stopReason)
           IN  Ret(FALSE, cur,
                   IF tokenStopReason # <<>> THEN <<P_setTokenStopReason(tokenStopReason[1])>> ELSE <<>>)

OnMessageStop(cur, doc) ==
  LET r == event_MessageStop_schema(doc)
  IN  IF ~r.ok THEN Caught(cur, "ZodError")
      ELSE LET tokenStopReason == FromConverseStopReason(r.stopReason)
           IN  Ret(FALSE, cur,
                   (IF tokenStopReason # <<>> THEN <<P_setTokenStopReason(tokenStopReason[1])>> ELSE <<>>)
                   \o <<P_setDialectEnded>>)

OnMetadata(cur, doc) ==
  LET r == event_Metadata_schema(doc)
  IN  IF ~r.ok THEN Caught(cur, "ZodError")
      ELSE Ret(FALSE, cur,
               <<P_updateMetrics(r.inputTokens, r.outputTokens,
                                 IF r.hasMetrics /\ r.latencyMs # 0 THEN <<r.latencyMs>> ELSE <<>>)>>)

\* the default arm: warn and skip
OnUnknownEvent(cur) == Ret(FALSE, cur, <<>>)

ParseFunction(hasErr, cur, ev) ==
  IF hasErr THEN Ret(TRUE, cur, <<>>)
  ELSE LET parsed == JSONParse(ev.data)
       IN  IF ~parsed.ok THEN Caught(cur, "SyntaxError")
           ELSE IF ~ev.named THEN OnUnknownEvent(cur)
           ELSE CASE ev.name = S_messageStart -> OnMessageStart(cur, parsed.doc)
                  [] ev.name = S_contentBlockStart -> OnContentBlockStart(cur, parsed.doc)
                  [] ev.name = S_contentBlockDelta -> OnContentBlockDelta(cur, parsed.doc)
                  [] ev.name = S_contentBlockStop -> OnContentBlockStop(cur, parsed.doc)
                  [] ev.name = S_messageStop -> OnMessageStop(cur, parsed.doc)
                  [] ev.name = S_metadata -> OnMetadata(cur, parsed.doc)
                  [] OTHER -> OnUnknownEvent(cur)


(***************************************************************************)
(* The non-streaming response: its wire schema and                         *)
(* createBedrockConverseParserNS.                                          *)
(***************************************************************************)
JArr(a) == [t |-> "arr", v |-> a]
HasArr(j, k) == Has(j, k) /\ j.v[k].t = "arr"

TextBlock_schema(j) == HasStr(j, "text")
ImageBlock_schema(j) ==
  /\ HasObj(j, "image")
  /\ HasStr(j.v.image, "format") /\ j.v.image.v.format.v \in {"png", "jpeg", "gif", "webp"}
  /\ HasObj(j.v.image, "source") /\ HasStr(j.v.image.v.source, "bytes")
ToolUseBlock_schema(j) ==
  /\ HasObj(j, "toolUse")
  /\ HasStr(j.v.toolUse, "toolUseId") /\ HasStr(j.v.toolUse, "name")
ToolResultBlock_schema(j) ==
  /\ HasObj(j, "toolResult")
  /\ HasStr(j.v.toolResult, "toolUseId")
  /\ HasArr(j.v.toolResult, "content")
  /\ \A i \in 1..Len(j.v.toolResult.v.content.v) :
       TextBlock_schema(j.v.toolResult.v.content.v[i]) \/ ImageBlock_schema(j.v.toolResult.v.content.v[i])
  /\ Has(j.v.toolResult, "status")
       => HasStr(j.v.toolResult, "status") /\ j.v.toolResult.v.status.v \in {"success", "error"}
\* the union takes its first matching member and keeps that member's keys
ContentBlock_schema(j) ==
  IF TextBlock_schema(j) THEN [ok |-> TRUE, keys |-> {"text"}]
  ELSE IF ImageBlock_schema(j) THEN [ok |-> TRUE, keys |-> {"image"}]
  ELSE IF ToolUseBlock_schema(j) THEN [ok |-> TRUE, keys |-> {"toolUse"}]
  ELSE IF ToolResultBlock_schema(j) THEN [ok |-> TRUE, keys |-> {"toolResult"}]
  ELSE [ok |-> FALSE, keys |-> {}]
Message_schema(j) ==
  /\ HasStr(j, "role") /\ j.v.role.v \in {"user", "assistant"}
  /\ HasArr(j, "content")
  /\ \A i \in 1..Len(j.v.content.v) : ContentBlock_schema(j.v.content.v[i]).ok
ResponseUsage_schema(j) == HasNum(j, "inputTokens") /\ HasNum(j, "outputTokens")
ResponseMetrics_schema(j) == HasNum(j, "latencyMs")
Response_schema(j) ==
  /\ HasObj(j, "output") /\ HasObj(j.v.output, "message") /\ Message_schema(j.v.output.v.message)
  /\ HasStr(j, "stopReason")
  /\ HasObj(j, "usage") /\ ResponseUsage_schema(j.v.usage)
  /\ Has(j, "metrics") => HasObj(j, "metrics") /\ ResponseMetrics_schema(j.v.metrics)

\* pt.startFunctionCallInvocation(id, name, 'json_object', input || null);
\* input is <<>> for null, <<the value>> otherwise
P_startFunctionCallInvocationObject(id, name, input) == <<"tool-call-start", id, name, "json_object", input>>
\* x || null for a JSON value that may be missing
OrNull(j, k) ==
  IF ~Has(j, k) THEN <<>>
  ELSE IF j.v[k].t = "num" /\ j.v[k].v = 0 THEN <<>>
  ELSE IF j.v[k].t = "str" /\ j.v[k].v = "" THEN <<>>
  ELSE <<j.v[k]>>

\* variant for C27: a tool-use block is left open
BlockParticles_NoPartEnd(block) ==
  LET keys == ContentBlock_schema(block).keys
  IN  IF "text" \in keys THEN <<P_appendText(block.v.text.v)>>
      ELSE IF "toolUse" \in keys
      THEN <<P_startFunctionCallInvocationObject(block.v.toolUse.v.toolUseId.v, block.v.toolUse.v.name.v,
                                                 OrNull(block.v.toolUse, "input"))>>
      ELSE <<>>

\* the body of the loop over the content blocks
BlockParticles(block) ==
  LET keys == ContentBlock_schema(block).keys
  IN  IF "text" \in keys THEN <<P_appendText(block.v.text.v)>>
      ELSE IF "toolUse" \in keys
      THEN <<P_startFunctionCallInvocationObject(block.v.toolUse.v.toolUseId.v, block.v.toolUse.v.name.v,
                                                 OrNull(block.v.toolUse, "input")),
             P_endMessagePart>>
      ELSE <<>>
RECURSIVE BlocksParticlesFrom(_, _)
BlocksParticlesFrom(contentBlocks, i) ==
  IF i > Len(contentBlocks) THEN <<>>
  ELSE BlockParticles(contentBlocks[i]) \o BlocksParticlesFrom(contentBlocks, i + 1)

\* the function createBedrockConverseParserNS returns, called with fullData:
\* [isJson, doc], the text of the JSON document doc or a text that is not
\* JSON; what it throws, or what it emits
ParseFunctionNS(fullData) ==
  IF ~fullData.isJson THEN [threw |-> TRUE, error |-> "SyntaxError", out |-> <<>>]
  ELSE IF ~Response_schema(fullData.doc) THEN [threw |-> TRUE, error |-> "ZodError", out |-> <<>>]
  ELSE LET response == fullData.doc.v
           tokenStopReason == FromConverseStopReason(response.stopReason.v)
       IN  [threw |-> FALSE, error |-> "",
            out |-> BlocksParticlesFrom(response.output.v.message.v.content.v, 1)
                    \o (IF tokenStopReason # <<>> THEN <<P_setTokenStopReason(tokenStopReason[1])>> ELSE <<>>)
                    \o <<P_updateMetrics(response.usage.v.inputTokens.v, response.usage.v.outputTokens.v,
                                         IF "metrics" \in DOMAIN response /\ response.metrics.v.latencyMs.v # 0
                                         THEN <<response.metrics.v.latencyMs.v>> ELSE <<>>)>>]

(***************************************************************************)
(* EventStream frame parser.                                               *)
(* Buffers are sequences of bytes, indexed from 0 as in the code.          *)
(***************************************************************************)
PRELUDE_LENGTH == 12
MESSAGE_CRC_LENGTH == 4
MIN_MESSAGE_LENGTH == PRELUDE_LENGTH + MESSAGE_CRC_LENGTH
MAX_MESSAGE_LENGTH == 25 * 1024 * 1024

\* byte sizes of the fixed-size header value types
HEADER_VALUE_FIXED_SIZES == (0 :> 0) @@ (1 :> 0) @@ (2 :> 1) @@ (3 :> 2) @@ (4 :> 4) @@ (5 :> 8) @@ (8 :> 8) @@ (9 :> 16)

Min(a, b) == IF a < b THEN a ELSE b
Max(a, b) == IF a > b THEN a ELSE b

\* buffer[i]: the byte, or Undefined past the end
Undefined == -1
At(buf, i) == IF i >= 0 /\ i < Len(buf) THEN buf[i + 1] ELSE Undefined

\* buffer.slice(start, end): clamped to the buffer, empty when start >= end
Slice(buf, start, end) == SubSeq(buf, Max(start, 0) + 1, Min(end, Len(buf)))

\* DataView.getUint32 / getUint16, big-endian
GetUint32(buf, o) == ((At(buf, o) * 256 + At(buf, o + 1)) * 256 + At(buf, o + 2)) * 256 + At(buf, o + 3)
GetUint16(buf, o) == At(buf, o) * 256 + At(buf, o + 1)

\* new DataView(buffer.buffer, byteOffset, 2) throws a RangeError unless the
\* two bytes lie inside the buffer
DataViewInRange(buf, byteOffset) == byteOffset + 2 <= Len(buf)

\* TextDecoder.decode: UTF-8; an ASCII byte is its own code, a byte that is
\* not part of a valid sequence decodes to U+FFFD
TextDecode(bytes) == [i \in 1..Len(bytes) |-> IF bytes[i] < 128 THEN bytes[i] ELSE 65533]

\* headers is a Map, kept as a sequence of <<name, value>> in insertion order
HeadersSet(headers, name, value) ==
  IF \E i \in 1..Len(headers) : headers[i][1] = name
  THEN [i \in 1..Len(headers) |-> IF headers[i][1] = name THEN <<name, value>> ELSE headers[i]]
  ELSE Append(headers, <<name, value>>)

\* headers.get(name): <<value>>, or <<>> for undefined
HeadersGet(headers, name) ==
  IF \E i \in 1..Len(headers) : headers[i][1] = name
  THEN <<headers[CHOOSE i \in 1..Len(headers) : headers[i][1] = name][2]>>
  ELSE <<>>

\* variant for C14: a header of unknown value type fails the frame
RECURSIVE ParseHeaders(_, _, _, _, _)
ParseHeader_UnknownTypeThrows(buf, offset, headerOffset, headersEnd, headers) ==
  LET nameLength == At(buf, offset + headerOffset)
      nameStart  == headerOffset + 1
      name       == TextDecode(Slice(buf, offset + nameStart, offset + nameStart + nameLength))
      typeAt     == nameStart + nameLength
      valueType  == At(buf, offset + typeAt)
      valueAt    == typeAt + 1
      valueLength == GetUint16(buf, offset + valueAt)
      value      == TextDecode(Slice(buf, offset + valueAt + 2, offset + valueAt + 2 + valueLength))
  IN  IF nameLength = Undefined \/ valueType = Undefined
      THEN [threw |-> FALSE, headers |-> headers]
      ELSE IF valueType = 7
      THEN IF ~DataViewInRange(buf, offset + valueAt) THEN [threw |-> TRUE, headers |-> headers]
           ELSE ParseHeaders(buf, offset, valueAt + 2 + valueLength, headersEnd,
                             HeadersSet(headers, name, value))
      ELSE IF valueType = 6
      THEN IF ~DataViewInRange(buf, offset + valueAt) THEN [threw |-> TRUE, headers |-> headers]
           ELSE ParseHeaders(buf, offset, valueAt + 2 + valueLength, headersEnd, headers)
      ELSE IF valueType \in DOMAIN HEADER_VALUE_FIXED_SIZES
      THEN ParseHeaders(buf, offset, valueAt + HEADER_VALUE_FIXED_SIZES[valueType], headersEnd, headers)
      ELSE [threw |-> TRUE, headers |-> headers]

\* the header loop of _parseFrame; threw = a RangeError from the DataView.
\* ParseHeader is one iteration, with the header at headerOffset.
ParseHeader(buf, offset, headerOffset, headersEnd, headers) ==
  LET nameLength == At(buf, offset + headerOffset)
      nameStart  == headerOffset + 1
      name       == TextDecode(Slice(buf, offset + nameStart, offset + nameStart + nameLength))
      typeAt     == nameStart + nameLength
      valueType  == At(buf, offset + typeAt)
      valueAt    == typeAt + 1
      valueLength == GetUint16(buf, offset + valueAt)
      value      == TextDecode(Slice(buf, offset + valueAt + 2, offset + valueAt + 2 + valueLength))
  IN  \* a length or a type read past the end of the buffer is undefined:
      \* the offset becomes NaN and the type is in no branch, so the loop breaks
      IF nameLength = Undefined \/ valueType = Undefined
      THEN [threw |-> FALSE, headers |-> headers]
      ELSE IF valueType = 7
      THEN IF ~DataViewInRange(buf, offset + valueAt) THEN [threw |-> TRUE, headers |-> headers]
           ELSE ParseHeaders(buf, offset, valueAt + 2 + valueLength, headersEnd,
                             HeadersSet(headers, name, value))
      ELSE IF valueType = 6
      THEN IF ~DataViewInRange(buf, offset + valueAt) THEN [threw |-> TRUE, headers |-> headers]
           ELSE ParseHeaders(buf, offset, valueAt + 2 + valueLength, headersEnd, headers)
      ELSE IF valueType \in DOMAIN HEADER_VALUE_FIXED_SIZES
      THEN ParseHeaders(buf, offset, valueAt + HEADER_VALUE_FIXED_SIZES[valueType], headersEnd, headers)
      ELSE [threw |-> FALSE, headers |-> headers]

ParseHeaders(buf, offset, headerOffset, headersEnd, headers) ==
  CHOOSE result \in
    { IF ho >= headersEnd THEN [threw |-> FALSE, headers |-> hs]
      ELSE ParseHeader(buf, offset, ho, headersEnd, hs) : ho \in {headerOffset}, hs \in {headers} } : TRUE

\* variant for C12: the frame is parsed as soon as its prelude is there
ParseFrameOfLengths_DoesNotWait(buf, offset, totalLength, headersLength) ==
  IF totalLength < MIN_MESSAGE_LENGTH \/ totalLength > MAX_MESSAGE_LENGTH
  THEN [kind |-> "throw", error |-> "Invalid frame total_length"]
  ELSE CHOOSE result \in
         { IF h.threw THEN [kind |-> "throw", error |-> "RangeError"]
           ELSE [kind |-> "frame",
                 headers |-> h.headers,
                 payload |-> Slice(buf, offset + PRELUDE_LENGTH + headersLength,
                                   offset + totalLength - MESSAGE_CRC_LENGTH),
                 bytesConsumed |-> totalLength]
           : h \in {ParseHeaders(buf, offset, PRELUDE_LENGTH, PRELUDE_LENGTH + headersLength, <<>>)} } : TRUE

\* variant for C5: the total length is checked once the whole frame is there
ParseFrameOfLengths_ChecksWholeFrame(buf, offset, totalLength, headersLength) ==
  IF Len(buf) - offset < totalLength THEN [kind |-> "null"]
  ELSE IF totalLength < MIN_MESSAGE_LENGTH \/ totalLength > MAX_MESSAGE_LENGTH
  THEN [kind |-> "throw", error |-> "Invalid frame total_length"]
  ELSE CHOOSE result \in
         { IF h.threw THEN [kind |-> "throw", error |-> "RangeError"]
           ELSE [kind |-> "frame",
                 headers |-> h.headers,
                 payload |-> Slice(buf, offset + PRELUDE_LENGTH + headersLength,
                                   offset + totalLength - MESSAGE_CRC_LENGTH),
                 bytesConsumed |-> totalLength]
           : h \in {ParseHeaders(buf, offset, PRELUDE_LENGTH, PRELUDE_LENGTH + headersLength, <<>>)} } : TRUE

\* _parseFrame(buffer, offset): "null", "throw" (with the error), or "frame"
ParseFrameOfLengths(buf, offset, totalLength, headersLength) ==
  IF totalLength < MIN_MESSAGE_LENGTH \/ totalLength > MAX_MESSAGE_LENGTH
  THEN [kind |-> "throw", error |-> "Invalid frame total_length"]
  ELSE IF Len(buf) - offset < totalLength THEN [kind |-> "null"]
  ELSE CHOOSE result \in
         { IF h.threw THEN [kind |-> "throw", error |-> "RangeError"]
           ELSE [kind |-> "frame",
                 headers |-> h.headers,
                 payload |-> Slice(buf, offset + PRELUDE_LENGTH + headersLength,
                                   offset + totalLength - MESSAGE_CRC_LENGTH),
                 bytesConsumed |-> totalLength]
           : h \in {ParseHeaders(buf, offset, PRELUDE_LENGTH, PRELUDE_LENGTH + headersLength, <<>>)} } : TRUE

ParseFrame(buf, offset) ==
  IF Len(buf) - offset < PRELUDE_LENGTH THEN [kind |-> "null"]
  ELSE CHOOSE result \in
         { ParseFrameOfLengths(buf, offset, totalLength, headersLength)
           : totalLength \in {GetUint32(buf, offset)}, headersLength \in {GetUint32(buf, offset + 4)} } : TRUE

(***************************************************************************)
(* atob: forgiving base64 decode of a text; ok = FALSE when it throws.     *)
(***************************************************************************)
Base64Value(c) ==
  CASE c >= 65 /\ c <= 90 -> c - 65
    [] c >= 97 /\ c <= 122 -> c - 97 + 26
    [] c >= 48 /\ c <= 57 -> c - 48 + 52
    [] c = 43 -> 62
    [] c = 47 -> 63
    [] OTHER -> Undefined

\* the bytes of the sextets sx from index i on: 4 sextets give 3 bytes, a
\* last group of 3 gives 2 and of 2 gives 1
RECURSIVE Base64Groups(_, _)
Base64Groups(sx, i) ==
  LET left == Len(sx) - i + 1
      n4 == ((sx[i] * 64 + sx[i + 1]) * 64 + sx[i + 2]) * 64 + sx[i + 3]
      n3 == ((sx[i] * 64 + sx[i + 1]) * 64 + sx[i + 2]) \div 4
  IN  IF left <= 0 THEN <<>>
      ELSE IF left >= 4
      THEN <<n4 \div 65536, (n4 \div 256) % 256, n4 % 256>> \o Base64Groups(sx, i + 4)
      ELSE IF left = 3 THEN <<n3 \div 256, n3 % 256>>
      ELSE <<(sx[i] * 64 + sx[i + 1]) \div 16>>

AtobSextets(sx) ==
  IF Len(sx) % 4 = 1 \/ \E i \in 1..Len(sx) : sx[i] = Undefined
  THEN [ok |-> FALSE]
  ELSE [ok |-> TRUE, bytes |-> Base64Groups(sx, 1)]

Atob(text) ==
  LET n == Len(text)
      pad == IF n % 4 = 0 /\ n >= 2 /\ text[n] = 61 THEN (IF text[n - 1] = 61 THEN 2 ELSE 1) ELSE 0
  IN  CHOOSE result \in {AtobSextets(sx) : sx \in {[i \in 1..(n - pad) |-> Base64Value(text[i])]}} : TRUE

\* _base64Decode
Base64Decode(base64) ==
  LET b == Atob(base64)
  IN  IF b.ok THEN [ok |-> TRUE, text |-> TextDecode(b.bytes)] ELSE [ok |-> FALSE]

(***************************************************************************)
(* JSON.stringify of a string: quoted, with " and \ escaped.               *)
(***************************************************************************)
RECURSIVE JSONStringifyFrom(_, _)
JSONStringifyFrom(text, i) ==
  IF i > Len(text) THEN <<>>
  ELSE (IF text[i] \in {34, 92} THEN <<92, text[i]>> ELSE <<text[i]>>) \o JSONStringifyFrom(text, i + 1)

JSONStringify(text) == <<34>> \o JSONStringifyFrom(text, 1) \o <<34>>

(***************************************************************************)
(* createEventStreamToSSETransform.transform: the events one decoded frame *)
(* enqueues. An SSE event "event: <name>\ndata: <data>\n\n" is kept as     *)
(* [named, name, data].                                                    *)
(***************************************************************************)
Ev(name, data) == [named |-> TRUE, name |-> name, data |-> data]
EvNoName(data) == [named |-> FALSE, name |-> <<>>, data |-> data]

BedrockExceptionTypes ==
  {S_modelStreamErrorException, S_internalServerException, S_modelTimeoutException,
   S_throttlingException, S_validationException, S_serviceUnavailableException}

ConverseEventTypes ==
  {S_messageStart, S_contentBlockStart, S_contentBlockDelta, S_contentBlockStop, S_messageStop, S_metadata}

\* wrapper?.chunk?.bytes || wrapper?.bytes, for string values: <<text>> or <<>>
ChunkBase64Bytes(wrapper) ==
  IF HasObj(wrapper, "chunk") /\ HasStr(wrapper.v.chunk, "bytes") /\ wrapper.v.chunk.v.bytes.v # <<>>
  THEN <<wrapper.v.chunk.v.bytes.v>>
  ELSE IF HasStr(wrapper, "bytes") /\ wrapper.v.bytes.v # <<>>
  THEN <<wrapper.v.bytes.v>>
  ELSE <<>>

\* variant for C30: the decoded inner payload keeps the name of the outer frame
ChunkInnerEvent_KeepsOuterName(anthropicEventJson) == Ev(S_chunk, anthropicEventJson)

\* the event of a decoded inner payload: named after its own type, or 'event'
ChunkInnerEvent(anthropicEventJson) ==
  LET parsed == JSONParse(anthropicEventJson)
      anthropicEventType ==
        IF parsed.ok /\ HasStr(parsed.doc, "type") /\ parsed.doc.v.type.v # <<>>
        THEN parsed.doc.v.type.v ELSE S_event
  IN  Ev(anthropicEventType, anthropicEventJson)

\* variant for C36: a chunk that cannot be decoded is dropped
ChunkEvents_DropsUndecodable(payload) ==
  LET wrapper == JSONParse(TextDecode(payload))
      base64Bytes == ChunkBase64Bytes(wrapper.doc)
  IN  IF ~wrapper.ok THEN <<>>
      ELSE IF base64Bytes = <<>> THEN <<>>
      ELSE CHOOSE result \in
             { IF ~decoded.ok THEN <<>>
               ELSE <<ChunkInnerEvent(decoded.text)>> : decoded \in {Base64Decode(base64Bytes[1])} } : TRUE

\* the 'chunk' path
ChunkEvents(payload) ==
  LET wrapper == JSONParse(TextDecode(payload))
      base64Bytes == ChunkBase64Bytes(wrapper.doc)
  IN  IF ~wrapper.ok THEN <<Ev(S_error, T_transformError)>>
      ELSE IF base64Bytes = <<>> THEN <<>>
      ELSE CHOOSE result \in
             { IF ~decoded.ok THEN <<Ev(S_error, T_transformError)>>
               ELSE <<ChunkInnerEvent(decoded.text)>> : decoded \in {Base64Decode(base64Bytes[1])} } : TRUE

\* variant for C34: a frame of an event type the transform does not know is
\* passed on under that type
FrameEvents_EmitsUnknownTypes(headers, payload) ==
  LET eventType == HeadersGet(headers, S_eventType)
      messageType == HeadersGet(headers, S_messageType)
  IN  IF messageType \in {<<S_exception>>, <<S_error>>}
      THEN <<Ev(S_error, TextDecode(payload))>>
      ELSE IF eventType = <<S_chunk>> THEN ChunkEvents(payload)
      ELSE IF eventType # <<>> /\ eventType[1] \in BedrockExceptionTypes
      THEN <<Ev(S_error, T_errorHead \o eventType[1] \o T_errorMid
                         \o JSONStringify(TextDecode(payload)) \o T_errorTail)>>
      ELSE IF eventType # <<>>
      THEN <<Ev(eventType[1], TextDecode(payload))>>
      ELSE <<>>

FrameEvents(headers, payload) ==
  LET eventType == HeadersGet(headers, S_eventType)
      messageType == HeadersGet(headers, S_messageType)
  IN  IF messageType \in {<<S_exception>>, <<S_error>>}
      THEN <<Ev(S_error, TextDecode(payload))>>
      ELSE IF eventType = <<S_chunk>> THEN ChunkEvents(payload)
      ELSE IF eventType # <<>> /\ eventType[1] \in BedrockExceptionTypes
      THEN <<Ev(S_error, T_errorHead \o eventType[1] \o T_errorMid
                         \o JSONStringify(TextDecode(payload)) \o T_errorTail)>>
      ELSE IF eventType # <<>> /\ eventType[1] \in ConverseEventTypes
      THEN <<Ev(eventType[1], TextDecode(payload))>>
      ELSE <<>>

\* the concatenation of the sequences seqs[i], seqs[i+1], ...
RECURSIVE CatFrom(_, _)
CatFrom(seqs, i) == IF i > Len(seqs) THEN <<>> ELSE seqs[i] \o CatFrom(seqs, i + 1)
Cat(seqs) == CatFrom(seqs, 1)

\* the frame loop of transform over the buffer: the frames decoded, each
\* with the events it enqueued
RECURSIVE Drain(_, _, _)
DrainFrame(buf, offset, out, r) ==
  CASE r.kind = "null" -> [offset |-> offset, out |-> out, threw |-> FALSE, error |-> ""]
    [] r.kind = "throw" -> [offset |-> offset, out |-> out, threw |-> TRUE, error |-> r.error]
    [] OTHER ->
         Drain(buf, offset + r.bytesConsumed,
               Append(out, [headers |-> r.headers, payload |-> r.payload, totalLength |-> r.bytesConsumed,
                            events |-> FrameEvents(r.headers, r.payload)]))

Drain(buf, offset, out) ==
  CHOOSE result \in
    { IF o >= Len(buf) THEN [offset |-> o, out |-> u, threw |-> FALSE, error |-> ""]
      ELSE DrainFrame(buf, o, u, r) : o \in {offset}, u \in {out}, r \in {ParseFrame(buf, offset)} } : TRUE

\* the events the frames enqueued, in order
EventsOf(fs) == Cat([i \in 1..Len(fs) |-> fs[i].events])

\* variant for C32: the buffer is never compacted
TransformBuffer_NoCompaction(newBuffer) ==
  CHOOSE result \in
    { [buffer |-> newBuffer,
       frames |-> d.out,
       enqueued |-> EventsOf(d.out),
       consumed |-> d.offset,
       threw |-> d.threw,
       error |-> d.error] : d \in {Drain(newBuffer, 0, <<>>)} } : TRUE

TransformBuffer(newBuffer) ==
  CHOOSE result \in
    { [buffer |-> IF ~d.threw /\ d.offset > 0 THEN Slice(newBuffer, d.offset, Len(newBuffer)) ELSE newBuffer,
       frames |-> d.out,
       enqueued |-> EventsOf(d.out),
       consumed |-> d.offset,
       threw |-> d.threw,
       error |-> d.error] : d \in {Drain(newBuffer, 0, <<>>)} } : TRUE

\* transform(chunk, controller): the new buffer, the frames decoded and the
\* events enqueued, and whether it threw (the buffer is compacted only when
\* it did not)
Transform(buffer, chunk) ==
  CHOOSE result \in {TransformBuffer(newBuffer) : newBuffer \in {buffer \o chunk}} : TRUE

(***************************************************************************)
(* Input byte streams: EventStream frames as the provider sends them       *)
(* ([total_length][headers_length][prelude_CRC][headers][payload][CRC]),   *)
(* and malformed variants. The checksums are not read by the code and are  *)
(* sent as zero bytes.                                                     *)
(***************************************************************************)
U32(n) == <<n \div 16777216, (n \div 65536) % 256, (n \div 256) % 256, n % 256>>
U16(n) == <<n \div 256, n % 256>>

\* a header with a string value (type 7)
EncodeHeader(name, value) == <<Len(name)>> \o name \o <<7>> \o U16(Len(value)) \o value

RawFrame(totalLength, headersLength, headerBytes, payload) ==
  U32(totalLength) \o U32(headersLength) \o <<0, 0, 0, 0>> \o headerBytes \o payload \o <<0, 0, 0, 0>>

Frame(headerBytes, payload) ==
  RawFrame(MIN_MESSAGE_LENGTH + Len(headerBytes) + Len(payload), Len(headerBytes), headerBytes, payload)

EventFrame(eventType, payload) ==
  Frame(EncodeHeader(S_eventType, eventType) \o EncodeHeader(S_messageType, S_event), payload)

ExceptionFrame(payload) == Frame(EncodeHeader(S_messageType, S_exception), payload)

ErrorFrame(payload) == Frame(EncodeHeader(S_messageType, S_error), payload)

\* the smallest valid frame: no headers, no payload
EmptyFrame == Frame(<<>>, <<>>)

\* only the 12-byte prelude of a frame that declares totalLength
Prelude(totalLength) == U32(totalLength) \o U32(0) \o <<0, 0, 0, 0>>

\* a 16-byte frame whose headers_length (4) covers its own checksum bytes:
\* a 2-byte name, then value type 7 as the last byte of the frame
OverrunFrame == U32(16) \o U32(4) \o <<0, 0, 0, 0>> \o <<2, 104, 105, 7>>

\* a header of unknown value type 10 in front of the :event-type header
UnknownTypeFrame(eventType, payload) ==
  Frame(<<1, 120, 10, 0>> \o EncodeHeader(S_eventType, eventType), payload)

\* a contentBlockDelta frame whose second header has the unknown value type
\* 10, in front of a :message-type header that says exception
F_deltaTextUnknownType ==
  Frame(EncodeHeader(S_eventType, S_contentBlockDelta) \o <<1, 120, 10, 0>>
          \o EncodeHeader(S_messageType, S_exception), T_deltaText)

F_messageStart == EventFrame(S_messageStart, T_roleAssistant)
F_deltaText == EventFrame(S_contentBlockDelta, T_deltaText)
F_startTool == EventFrame(S_contentBlockStart, T_startTool1)
F_deltaTool == EventFrame(S_contentBlockDelta, T_deltaTool)
F_blockStop == EventFrame(S_contentBlockStop, T_blockStop)
F_stopEndTurn == EventFrame(S_messageStop, T_stopEndTurn)
F_stopToolUse == EventFrame(S_messageStop, T_stopToolUse)
F_metadata == EventFrame(S_metadata, T_usageLatency)
F_ping == EventFrame(S_ping, T_emptyObj)
F_throttling == EventFrame(S_throttlingException, T_errMessage)

Streams ==
  { <<>>,
    Cat(<<F_messageStart, F_deltaText, F_stopEndTurn>>),
    Cat(<<F_stopEndTurn, F_metadata>>),
    Cat(<<F_deltaText>>),
    Cat(<<F_stopEndTurn, SubSeq(F_deltaText, 1, 20)>>),
    Cat(<<F_deltaText, SubSeq(F_stopEndTurn, 1, 5)>>),
    Cat(<<F_startTool, F_deltaTool, F_blockStop, F_stopToolUse>>),
    Cat(<<ExceptionFrame(T_errMessage), F_deltaText>>),
    Cat(<<ErrorFrame(T_notJson), F_stopEndTurn>>),
    Cat(<<F_throttling, F_stopEndTurn>>),
    Cat(<<F_deltaText, Prelude(MAX_MESSAGE_LENGTH + 1), F_stopEndTurn>>),
    Cat(<<F_deltaText, Prelude(MIN_MESSAGE_LENGTH - 1), F_stopEndTurn>>),
    Cat(<<Prelude(0), F_stopEndTurn>>),
    Cat(<<F_deltaText, Prelude(MAX_MESSAGE_LENGTH), F_stopEndTurn>>),
    Cat(<<OverrunFrame, F_stopEndTurn>>),
    Cat(<<F_ping, EmptyFrame, F_stopEndTurn>>),
    Cat(<<UnknownTypeFrame(S_messageStop, T_stopEndTurn), F_stopEndTurn>>),
    Cat(<<F_deltaTextUnknownType, F_stopEndTurn>>),
    Cat(<<EventFrame(S_chunk, T_wrapBytes), EventFrame(S_chunk, T_wrapNoType), EventFrame(S_chunk, T_wrapInvalid)>>),
    Cat(<<EventFrame(S_chunk, T_notJson), EventFrame(S_chunk, T_wrapChunkBytes),
          EventFrame(S_chunk, T_emptyObj), EventFrame(S_chunk, T_wrapNotJson)>>) }

(***************************************************************************)
(* aixToBedrockConverse: the adapter from the canonical chat request to    *)
(* the Converse wire request. Texts here are strings. A value that may be  *)
(* undefined is <<>> or <<value>>. A call gives [threw, error, ...].       *)
(***************************************************************************)
\* _mimeToConverseFormat; mimeType is the mime type split at '/'
MimeToConverseFormat(mimeType) ==
  LET sub == IF Len(mimeType) >= 2 THEN mimeType[2] ELSE "undefined"
  IN  CASE sub = "png" -> "png"
        [] sub \in {"jpeg", "jpg"} -> "jpeg"
        [] sub = "gif" -> "gif"
        [] sub = "webp" -> "webp"
        [] OTHER -> "jpeg"

\* approxDocPart_To_String and approxInReferenceTo_To_XMLString are
\* imported by the adapter: the part carries the string they return
ApproxDocPart_To_String(part) == part.asString
ApproxInReferenceTo_To_XMLString(part) == part.asXMLString
\* aixSpillShallFlush is imported by the adapter: the message carries the
\* flush marker it reads
AixSpillShallFlush(aixMessage) == aixMessage.flush

Yield(role, content) == [threw |-> FALSE, error |-> "", out |-> <<[role |-> role, content |-> content]>>]
Skip == [threw |-> FALSE, error |-> "", out |-> <<>>]
Throw(message) == [threw |-> TRUE, error |-> message, out |-> <<>>]

\* one part of a user message
UserPartBlocks(part) ==
  CASE part.pt = "text" -> Yield("user", [text |-> part.text])
    [] part.pt = "inline_image" ->
         Yield("user", [image |-> [format |-> MimeToConverseFormat(part.mimeType),
                                   source |-> [bytes |-> part.base64]]])
    [] part.pt = "doc" -> Yield("user", [text |-> ApproxDocPart_To_String(part)])
    [] part.pt = "meta_in_reference_to" ->
         IF ApproxInReferenceTo_To_XMLString(part) # ""
         THEN Yield("user", [text |-> ApproxInReferenceTo_To_XMLString(part)])
         ELSE Skip
    [] part.pt = "meta_cache_control" -> Skip
    [] OTHER -> Throw("Unsupported part type in User message")

\* the input object of a function call: its args parsed, {} when they are
\* empty or are not JSON
ToolUseInput(args) ==
  IF args = T_empty \/ ~JSONParse(args).ok THEN JObj(<<>>) ELSE JSONParse(args).doc

\* one part of a model message
ModelPartBlocks(part) ==
  CASE part.pt = "text" -> Yield("assistant", [text |-> part.text])
    [] part.pt \in {"inline_audio", "inline_image"} -> Skip
    [] part.pt = "tool_invocation" ->
         ( CASE part.invocation.type = "function_call" ->
                  Yield("assistant", [toolUse |-> [toolUseId |-> part.id, name |-> part.invocation.name,
                                                   input |-> ToolUseInput(part.invocation.args)]])
             [] part.invocation.type = "code_execution" -> Skip
             [] OTHER -> Throw("Unsupported tool call type") )
    [] part.pt \in {"ma", "meta_cache_control"} -> Skip
    [] OTHER -> Throw("Unsupported part type in Model message")

\* part.error is [k |-> "none"] (falsy), [k |-> "true"] or [k |-> "string", text]
ToolErrorPrefix(error) ==
  CASE error.k = "none" -> ""
    [] error.k = "string" -> "[ERROR] " \o error.text \o " - "
    [] OTHER -> "[ERROR] "

\* one part of a tool message
ToolPartBlocks(part) ==
  CASE part.pt = "tool_response" ->
         IF part.response.type \in {"function_call", "code_execution"}
         THEN Yield("user",
                [toolResult |->
                   IF part.error.k = "none"
                   THEN [toolUseId |-> part.id,
                         content |-> <<[text |-> ToolErrorPrefix(part.error) \o part.response.result]>>]
                   ELSE [toolUseId |-> part.id,
                         content |-> <<[text |-> ToolErrorPrefix(part.error) \o part.response.result]>>,
                         status |-> "error"]])
         ELSE Throw("Unsupported tool response type")
    [] part.pt = "meta_cache_control" -> Skip
    [] OTHER -> Throw("Unsupported part type in Tool message")

PartBlocks(role, part) ==
  CASE role = "user" -> UserPartBlocks(part)
    [] role = "model" -> ModelPartBlocks(part)
    [] OTHER -> ToolPartBlocks(part)

\* the blocks of the parts from index i on, up to the first throw
RECURSIVE PartsBlocksFrom(_, _, _)
PartsBlocksFrom(role, parts, i) ==
  IF i > Len(parts) THEN Skip
  ELSE LET first == PartBlocks(role, parts[i])
       IN  IF first.threw THEN first
           ELSE LET rest == PartsBlocksFrom(role, parts, i + 1)
                IN  IF rest.threw THEN rest
                    ELSE [threw |-> FALSE, error |-> "", out |-> first.out \o rest.out]

\* _generateConverseContentBlocks: every block the generator yields
GenerateConverseContentBlocks(aixMessage) ==
  IF Len(aixMessage.parts) < 1 THEN Skip
  ELSE IF aixMessage.role \in {"user", "model", "tool"}
  THEN PartsBlocksFrom(aixMessage.role, aixMessage.parts, 1)
  ELSE Skip

\* variant for C15: a block is put in front of the blocks of its wire message
PushBlock_PutsInFront(acc, convPart) ==
  IF acc.currentMessage = <<>> \/ acc.currentMessage[1].role # convPart.role
  THEN [chatMessages |-> acc.chatMessages \o acc.currentMessage,
        currentMessage |-> <<[role |-> convPart.role, content |-> <<convPart.content>>]>>]
  ELSE [chatMessages |-> acc.chatMessages,
        currentMessage |-> <<[role |-> convPart.role,
                              content |-> <<convPart.content>> \o acc.currentMessage[1].content]>>]

\* variant for C17: a block joins the current wire message whatever its role
PushBlock_IgnoresRole(acc, convPart) ==
  IF acc.currentMessage = <<>>
  THEN [chatMessages |-> acc.chatMessages \o acc.currentMessage,
        currentMessage |-> <<[role |-> convPart.role, content |-> <<convPart.content>>]>>]
  ELSE [chatMessages |-> acc.chatMessages,
        currentMessage |-> <<[role |-> acc.currentMessage[1].role,
                              content |-> Append(acc.currentMessage[1].content, convPart.content)]>>]

\* the body of the inner loop: a block joins the current wire message, or
\* ends it and starts the next one; acc is [chatMessages, currentMessage]
PushBlock(acc, convPart) ==
  IF acc.currentMessage = <<>> \/ acc.currentMessage[1].role # convPart.role
  THEN [chatMessages |-> acc.chatMessages \o acc.currentMessage,
        currentMessage |-> <<[role |-> convPart.role, content |-> <<convPart.content>>]>>]
  ELSE [chatMessages |-> acc.chatMessages,
        currentMessage |-> <<[role |-> convPart.role,
                              content |-> Append(acc.currentMessage[1].content, convPart.content)]>>]

RECURSIVE PushBlocksFrom(_, _, _)
PushBlocksFrom(acc, blocks, i) ==
  IF i > Len(blocks) THEN acc ELSE PushBlocksFrom(PushBlock(acc, blocks[i]), blocks, i + 1)

\* variant for C16: the flush marker is not looked at
FlushMessage_Never(acc, aixMessage) == acc

\* variant for C37: the current wire message is ended after every canonical message
FlushMessage_Always(acc, aixMessage) ==
  IF acc.currentMessage # <<>>
  THEN [chatMessages |-> acc.chatMessages \o acc.currentMessage, currentMessage |-> <<>>]
  ELSE acc

\* the flush at the end of the outer loop's body
FlushMessage(acc, aixMessage) ==
  IF AixSpillShallFlush(aixMessage) /\ acc.currentMessage # <<>>
  THEN [chatMessages |-> acc.chatMessages \o acc.currentMessage, currentMessage |-> <<>>]
  ELSE acc

\* the outer loop from message i on, and the push of the last wire message
RECURSIVE ChatMessagesFrom(_, _, _)
ChatMessagesFrom(chatSequence, i, acc) ==
  IF i > Len(chatSequence)
  THEN [threw |-> FALSE, error |-> "", messages |-> acc.chatMessages \o acc.currentMessage]
  ELSE LET g == GenerateConverseContentBlocks(chatSequence[i])
       IN  IF g.threw THEN [threw |-> TRUE, error |-> g.error, messages |-> <<>>]
           ELSE ChatMessagesFrom(chatSequence, i + 1,
                                 FlushMessage(PushBlocksFrom(acc, g.out, 1), chatSequence[i]))

ChatMessages(chatSequence) ==
  ChatMessagesFrom(chatSequence, 1, [chatMessages |-> <<>>, currentMessage |-> <<>>])

\* the system message: systemParts, or the throw
\* variant for C23: an image in the system message is left out
RECURSIVE SystemPartsFrom_DropsImages(_, _)
SystemPartsFrom_DropsImages(parts, i) ==
  IF i > Len(parts) THEN [threw |-> FALSE, error |-> "", out |-> <<>>]
  ELSE LET rest == SystemPartsFrom_DropsImages(parts, i + 1)
           this == CASE parts[i].pt = "text" -> <<[text |-> parts[i].text]>>
                     [] parts[i].pt = "doc" -> <<[text |-> ApproxDocPart_To_String(parts[i])]>>
                     [] OTHER -> <<>>
       IN  IF parts[i].pt \notin {"text", "doc", "meta_cache_control", "inline_image"}
           THEN Throw("Unsupported part type in System message")
           ELSE IF rest.threw THEN rest
           ELSE [threw |-> FALSE, error |-> "", out |-> this \o rest.out]

RECURSIVE SystemPartsFrom(_, _)
SystemPartsFrom(parts, i) ==
  IF i > Len(parts) THEN [threw |-> FALSE, error |-> "", out |-> <<>>]
  ELSE LET rest == SystemPartsFrom(parts, i + 1)
           this == CASE parts[i].pt = "text" -> <<[text |-> parts[i].text]>>
                     [] parts[i].pt = "doc" -> <<[text |-> ApproxDocPart_To_String(parts[i])]>>
                     [] OTHER -> <<>>
       IN  IF parts[i].pt = "inline_image"
           THEN Throw("Bedrock Converse: images cannot be in system messages")
           ELSE IF parts[i].pt \notin {"text", "doc", "meta_cache_control"}
           THEN Throw("Unsupported part type in System message")
           ELSE IF rest.threw THEN rest
           ELSE [threw |-> FALSE, error |-> "", out |-> this \o rest.out]

\* systemMessage is <<>> (undefined) or <<[parts]>>; system is <<>> or <<systemParts>>
SystemContent(systemMessage) ==
  IF systemMessage = <<>> \/ Len(systemMessage[1].parts) = 0
  THEN [threw |-> FALSE, error |-> "", system |-> <<>>]
  ELSE LET s == SystemPartsFrom(systemMessage[1].parts, 1)
       IN  IF s.threw THEN [threw |-> TRUE, error |-> s.error, system |-> <<>>]
           ELSE [threw |-> FALSE, error |-> "", system |-> IF Len(s.out) > 0 THEN <<s.out>> ELSE <<>>]

\* variant for C25: temperature is always sent
InferenceConfigKeys_AlwaysTemperature(model) ==
     (IF model.maxTokens.k # "undefined" THEN {"maxTokens"} ELSE {})
  \cup {"temperature"}
  \cup (IF model.topP.k # "undefined" THEN {"topP"} ELSE {})

\* a model parameter is [k |-> "undefined"], [k |-> "null"] or [k |-> "number", v]
InferenceConfigKeys(model) ==
     (IF model.maxTokens.k # "undefined" THEN {"maxTokens"} ELSE {})
  \cup (IF model.temperature.k \notin {"undefined", "null"} THEN {"temperature"} ELSE {})
  \cup (IF model.topP.k # "undefined" THEN {"topP"} ELSE {})
\* inferenceConfig is <<>> (left out) or <<the object>>
InferenceConfig(model) ==
  IF InferenceConfigKeys(model) = {} THEN <<>>
  ELSE <<[key \in InferenceConfigKeys(model) |-> model[key]]>>

\* _toConverseTools; a function_call definition is [type, name, description,
\* input_schema], input_schema <<>> or <<[properties, required]>>, required
\* <<>> or <<names>>
ToConverseTool(itd) ==
  LET properties == IF itd.input_schema = <<>> THEN "{}" ELSE itd.input_schema[1].properties
      required == IF itd.input_schema = <<>> THEN <<>> ELSE itd.input_schema[1].required
  IN  [toolSpec |-> [name |-> itd.name, description |-> IF itd.description = "" THEN <<>> ELSE <<itd.description>>,
                     inputSchema |-> [json |-> [type |-> "object", properties |-> properties,
                                                required |-> required]]]]
\* variant for C24: a code_execution definition is sent as a tool without schema
RECURSIVE ToConverseToolsFrom_KeepsCodeExecution(_, _)
ToConverseToolsFrom_KeepsCodeExecution(itds, i) ==
  IF i > Len(itds) THEN <<>>
  ELSE (IF itds[i].type = "function_call" THEN <<ToConverseTool(itds[i])>>
        ELSE <<ToConverseTool([name |-> "code_execution", description |-> "", input_schema |-> <<>>])>>)
         \o ToConverseToolsFrom_KeepsCodeExecution(itds, i + 1)

RECURSIVE ToConverseToolsFrom(_, _)
ToConverseToolsFrom(itds, i) ==
  IF i > Len(itds) THEN <<>>
  ELSE (IF itds[i].type = "function_call" THEN <<ToConverseTool(itds[i])>> ELSE <<>>)
         \o ToConverseToolsFrom(itds, i + 1)
ToConverseTools(itds) == ToConverseToolsFrom(itds, 1)

\* _toConverseToolChoice; <<>> is the undefined it returns for another type
ToConverseToolChoice(itp) ==
  CASE itp.type = "auto" -> <<"auto">>
    [] itp.type = "any" -> <<"any">>
    [] itp.type = "function_call" -> <<"tool", itp.name>>
    [] OTHER -> <<>>

\* toolConfig is <<>> (left out) or <<[tools, hasToolChoice, toolChoice]>>
ToolConfig(tools, toolsPolicy) ==
  IF Len(tools) = 0 \/ Len(ToConverseTools(tools)) = 0 THEN <<>>
  ELSE <<[tools |-> ToConverseTools(tools),
          hasToolChoice |-> toolsPolicy # <<>>,
          toolChoice |-> IF toolsPolicy # <<>> THEN ToConverseToolChoice(toolsPolicy[1]) ELSE <<>>]>>

\* aixToBedrockConverse(model, chatGenerate), chatGenerate being the request
\* after the spill of system images
AixToBedrockConverse(model, chatGenerate) ==
  LET s == SystemContent(chatGenerate.systemMessage)
      m == ChatMessages(chatGenerate.chatSequence)
  IN  IF s.threw THEN [threw |-> TRUE, error |-> s.error]
      ELSE IF m.threw THEN [threw |-> TRUE, error |-> m.error]
      ELSE [threw |-> FALSE, error |-> "",
            system |-> s.system,
            messages |-> m.messages,
            inferenceConfig |-> InferenceConfig(model),
            toolConfig |-> ToolConfig(chatGenerate.tools, chatGenerate.toolsPolicy)]

(***************************************************************************)
(* Bedrock access: the resolution of the credentials and the headers of a  *)
(* request.  A field that is undefined, null or '' is the empty string     *)
(* here: the code only tests these fields for truthiness, and              *)
(* `x || undefined` leaves a truthy x as it is.                            *)
(***************************************************************************)
DEFAULT_BEDROCK_REGION == "us-east-1"
MissingCredentialsV1 == "Missing AWS credentials. Add your Access Key ID and Secret Access Key"
MissingCredentials == "Missing AWS credentials. Add your Bedrock API Key or IAM Access Key"
TRPCError(message) == [threw |-> TRUE, code |-> "BAD_REQUEST", message |-> message]
Resolved(value) == [threw |-> FALSE, value |-> value]
\* a || b
OrElse(a, b) == IF a # "" THEN a ELSE b
BedrockAuthBearer(bearerToken, region) ==
  [type |-> "bearer", bearerToken |-> bearerToken, region |-> region]
BedrockAuthSigV4(accessKeyId, secretAccessKey, sessionToken, region) ==
  [type |-> "sigv4", accessKeyId |-> accessKeyId, secretAccessKey |-> secretAccessKey,
   sessionToken |-> sessionToken, region |-> region]

\* variant for C18: the server's bearer token is tried before the client's
\* IAM credentials
BedrockResolveAuth_ServerBearerFirst(acc, env) ==
  IF acc.bedrockBearerToken # ""
  THEN Resolved(BedrockAuthBearer(acc.bedrockBearerToken, OrElse(acc.bedrockRegion, DEFAULT_BEDROCK_REGION)))
  ELSE IF env.BEDROCK_BEARER_TOKEN # ""
  THEN Resolved(BedrockAuthBearer(env.BEDROCK_BEARER_TOKEN, OrElse(env.BEDROCK_REGION, DEFAULT_BEDROCK_REGION)))
  ELSE IF acc.bedrockAccessKeyId # "" /\ acc.bedrockSecretAccessKey # ""
  THEN Resolved(BedrockAuthSigV4(acc.bedrockAccessKeyId, acc.bedrockSecretAccessKey,
                                 acc.bedrockSessionToken, OrElse(acc.bedrockRegion, DEFAULT_BEDROCK_REGION)))
  ELSE IF env.BEDROCK_ACCESS_KEY_ID # "" /\ env.BEDROCK_SECRET_ACCESS_KEY # ""
  THEN Resolved(BedrockAuthSigV4(env.BEDROCK_ACCESS_KEY_ID, env.BEDROCK_SECRET_ACCESS_KEY,
                                 env.BEDROCK_SESSION_TOKEN, OrElse(env.BEDROCK_REGION, DEFAULT_BEDROCK_REGION)))
  ELSE TRPCError(MissingCredentials)

\* variant for C19: the server's IAM credentials are completed with the
\* client's session token
BedrockResolveAuth_BorrowsSessionToken(acc, env) ==
  IF acc.bedrockBearerToken # ""
  THEN Resolved(BedrockAuthBearer(acc.bedrockBearerToken, OrElse(acc.bedrockRegion, DEFAULT_BEDROCK_REGION)))
  ELSE IF acc.bedrockAccessKeyId # "" /\ acc.bedrockSecretAccessKey # ""
  THEN Resolved(BedrockAuthSigV4(acc.bedrockAccessKeyId, acc.bedrockSecretAccessKey,
                                 acc.bedrockSessionToken, OrElse(acc.bedrockRegion, DEFAULT_BEDROCK_REGION)))
  ELSE IF env.BEDROCK_BEARER_TOKEN # ""
  THEN Resolved(BedrockAuthBearer(env.BEDROCK_BEARER_TOKEN, OrElse(env.BEDROCK_REGION, DEFAULT_BEDROCK_REGION)))
  ELSE IF env.BEDROCK_ACCESS_KEY_ID # "" /\ env.BEDROCK_SECRET_ACCESS_KEY # ""
  THEN Resolved(BedrockAuthSigV4(env.BEDROCK_ACCESS_KEY_ID, env.BEDROCK_SECRET_ACCESS_KEY,
                                 OrElse(env.BEDROCK_SESSION_TOKEN, acc.bedrockSessionToken),
                                 OrElse(env.BEDROCK_REGION, DEFAULT_BEDROCK_REGION)))
  ELSE TRPCError(MissingCredentials)

\* variant for C20: without credentials the request is signed with what
\* the server has
BedrockResolveAuth_NeverFails(acc, env) ==
  IF acc.bedrockBearerToken # ""
  THEN Resolved(BedrockAuthBearer(acc.bedrockBearerToken, OrElse(acc.bedrockRegion, DEFAULT_BEDROCK_REGION)))
  ELSE IF acc.bedrockAccessKeyId # "" /\ acc.bedrockSecretAccessKey # ""
  THEN Resolved(BedrockAuthSigV4(acc.bedrockAccessKeyId, acc.bedrockSecretAccessKey,
                                 acc.bedrockSessionToken, OrElse(acc.bedrockRegion, DEFAULT_BEDROCK_REGION)))
  ELSE IF env.BEDROCK_BEARER_TOKEN # ""
  THEN Resolved(BedrockAuthBearer(env.BEDROCK_BEARER_TOKEN, OrElse(env.BEDROCK_REGION, DEFAULT_BEDROCK_REGION)))
  ELSE Resolved(BedrockAuthSigV4(env.BEDROCK_ACCESS_KEY_ID, env.BEDROCK_SECRET_ACCESS_KEY,
                                 env.BEDROCK_SESSION_TOKEN, OrElse(env.BEDROCK_REGION, DEFAULT_BEDROCK_REGION)))

\* variant for C21: the region is resolved once, the client's first
BedrockResolveAuth_KeepsClientRegion(acc, env) ==
  IF acc.bedrockBearerToken # ""
  THEN Resolved(BedrockAuthBearer(acc.bedrockBearerToken, OrElse(acc.bedrockRegion, DEFAULT_BEDROCK_REGION)))
  ELSE IF acc.bedrockAccessKeyId # "" /\ acc.bedrockSecretAccessKey # ""
  THEN Resolved(BedrockAuthSigV4(acc.bedrockAccessKeyId, acc.bedrockSecretAccessKey,
                                 acc.bedrockSessionToken, OrElse(acc.bedrockRegion, DEFAULT_BEDROCK_REGION)))
  ELSE IF env.BEDROCK_BEARER_TOKEN # ""
  THEN Resolved(BedrockAuthBearer(env.BEDROCK_BEARER_TOKEN,
                                  OrElse(acc.bedrockRegion, OrElse(env.BEDROCK_REGION, DEFAULT_BEDROCK_REGION))))
  ELSE IF env.BEDROCK_ACCESS_KEY_ID # "" /\ env.BEDROCK_SECRET_ACCESS_KEY # ""
  THEN Resolved(BedrockAuthSigV4(env.BEDROCK_ACCESS_KEY_ID, env.BEDROCK_SECRET_ACCESS_KEY, env.BEDROCK_SESSION_TOKEN,
                                 OrElse(acc.bedrockRegion, OrElse(env.BEDROCK_REGION, DEFAULT_BEDROCK_REGION))))
  ELSE TRPCError(MissingCredentials)

\* _bedrockResolveAuth(access), env being the server's environment
BedrockResolveAuth(acc, env) ==
  \* 1. client bearer token
  IF acc.bedrockBearerToken # ""
  THEN Resolved(BedrockAuthBearer(acc.bedrockBearerToken, OrElse(acc.bedrockRegion, DEFAULT_BEDROCK_REGION)))
  \* 2. client IAM credentials
  ELSE IF acc.bedrockAccessKeyId # "" /\ acc.bedrockSecretAccessKey # ""
  THEN Resolved(BedrockAuthSigV4(acc.bedrockAccessKeyId, acc.bedrockSecretAccessKey,
                                 acc.bedrockSessionToken, OrElse(acc.bedrockRegion, DEFAULT_BEDROCK_REGION)))
  \* 3. server bearer token
  ELSE IF env.BEDROCK_BEARER_TOKEN # ""
  THEN Resolved(BedrockAuthBearer(env.BEDROCK_BEARER_TOKEN, OrElse(env.BEDROCK_REGION, DEFAULT_BEDROCK_REGION)))
  \* 4. server IAM credentials
  ELSE IF env.BEDROCK_ACCESS_KEY_ID # "" /\ env.BEDROCK_SECRET_ACCESS_KEY # ""
  THEN Resolved(BedrockAuthSigV4(env.BEDROCK_ACCESS_KEY_ID, env.BEDROCK_SECRET_ACCESS_KEY,
                                 env.BEDROCK_SESSION_TOKEN, OrElse(env.BEDROCK_REGION, DEFAULT_BEDROCK_REGION)))
  ELSE TRPCError(MissingCredentials)

\* the headers the request is made with before it is signed
RequestHeaders(method) == IF method = "POST" THEN {"Accept", "Content-Type"} ELSE {"Accept"}
\* awsClient.sign: the signed request keeps the headers it was given and
\* gains the signature, which is kept as what it was computed from, and the
\* session token when there is one
AwsClientSign(client, method) ==
  [names |-> RequestHeaders(method) \cup {"authorization", "x-amz-date"}
               \cup (IF client.sessionToken # "" THEN {"x-amz-security-token"} ELSE {}),
   authorization |-> [scheme |-> "AWS4-HMAC-SHA256", service |-> client.service,
                      accessKeyId |-> client.accessKeyId, secretAccessKey |-> client.secretAccessKey,
                      region |-> client.region, method |-> method],
   securityToken |-> client.sessionToken]
AwsClient(auth) ==
  [service |-> "bedrock", accessKeyId |-> auth.accessKeyId, secretAccessKey |-> auth.secretAccessKey,
   sessionToken |-> auth.sessionToken, region |-> auth.region]

\* bedrockAccessAsync(access, method, url, body): what it throws or returns,
\* with the auth context it worked from and the requests it signed
BedrockAccessAsync(acc, env, method) ==
  LET r == BedrockResolveAuth(acc, env)
  IN  IF r.threw
      THEN [threw |-> TRUE, error |-> r.message, auth |-> <<>>, headers |-> <<>>, signed |-> <<>>]
      ELSE IF r.value.type = "bearer"
      THEN [threw |-> FALSE, error |-> "", auth |-> <<r.value>>,
            headers |-> <<[names |-> RequestHeaders(method) \cup {"Authorization"},
                           authorization |-> [scheme |-> "Bearer", bearerToken |-> r.value.bearerToken],
                           securityToken |-> ""]>>,
            signed |-> <<>>]
      ELSE [threw |-> FALSE, error |-> "", auth |-> <<r.value>>,
            headers |-> <<AwsClientSign(AwsClient(r.value), method)>>,
            signed |-> <<[client |-> AwsClient(r.value), method |-> method]>>]

\* bedrockServerConfig(access) of the IAM-only access module
BedrockServerConfig(acc, env) ==
  LET userProvided == acc.bedrockAccessKeyId # ""
      accessKeyId == IF userProvided THEN acc.bedrockAccessKeyId ELSE env.BEDROCK_ACCESS_KEY_ID
      secretAccessKey == IF userProvided THEN acc.bedrockSecretAccessKey ELSE env.BEDROCK_SECRET_ACCESS_KEY
      sessionToken == IF userProvided THEN acc.bedrockSessionToken ELSE env.BEDROCK_SESSION_TOKEN
      region == OrElse(IF userProvided THEN acc.bedrockRegion ELSE env.BEDROCK_REGION, "us-east-1")
  IN  IF accessKeyId = "" \/ secretAccessKey = ""
      THEN TRPCError(MissingCredentialsV1)
      ELSE Resolved([accessKeyId |-> accessKeyId, secretAccessKey |-> secretAccessKey,
                     sessionToken |-> sessionToken, region |-> region])
(***************************************************************************)
(* bedrock.vendor.ts: the access object the client sends.  A JavaScript    *)
(* value is Absent (undefined), Nil (null), Str(v) or Bool(v).             *)
(***************************************************************************)
Absent == [k |-> "undefined"]
Nil == [k |-> "null"]
Str(v) == [k |-> "string", v |-> v]
Bool(v) == [k |-> "boolean", v |-> v]
\* !!x
ToBoolean(x) == (x.k = "string" /\ x.v # "") \/ (x.k = "boolean" /\ x.v)
\* a || b
LogicalOr(a, b) == IF ToBoolean(a) THEN a ELSE b
\* partialSetup?.field
OptionalField(s, field) == IF s = <<>> THEN Absent ELSE s[1][field]

\* _csfBedrockAvailable
CsfBedrockAvailable(s) ==
  \/ ToBoolean(OptionalField(s, "bedrockBearerToken"))
  \/ ToBoolean(OptionalField(s, "bedrockAccessKeyId")) /\ ToBoolean(OptionalField(s, "bedrockSecretAccessKey"))

\* variant for C38: the IAM credentials are sent alongside the bearer token
GetTransportAccess_SendsAll(partialSetup) ==
  [dialect |-> "bedrock",
   bedrockBearerToken |-> LogicalOr(OptionalField(partialSetup, "bedrockBearerToken"), Str("")),
   bedrockAccessKeyId |-> LogicalOr(OptionalField(partialSetup, "bedrockAccessKeyId"), Str("")),
   bedrockSecretAccessKey |-> LogicalOr(OptionalField(partialSetup, "bedrockSecretAccessKey"), Str("")),
   bedrockSessionToken |-> LogicalOr(OptionalField(partialSetup, "bedrockSessionToken"), Nil),
   bedrockRegion |-> LogicalOr(OptionalField(partialSetup, "bedrockRegion"), Str("us-west-2")),
   clientSideFetch |-> CsfBedrockAvailable(partialSetup) /\ ToBoolean(OptionalField(partialSetup, "csf"))]

\* ModelVendorBedrock.getTransportAccess
GetTransportAccess(partialSetup) ==
  LET credentials ==
        IF ToBoolean(OptionalField(partialSetup, "bedrockBearerToken"))
        THEN [bedrockBearerToken |-> partialSetup[1].bedrockBearerToken,
              bedrockAccessKeyId |-> Str(""),
              bedrockSecretAccessKey |-> Str(""),
              bedrockSessionToken |-> Nil]
        ELSE [bedrockBearerToken |-> Str(""),
              bedrockAccessKeyId |-> LogicalOr(OptionalField(partialSetup, "bedrockAccessKeyId"), Str("")),
              bedrockSecretAccessKey |-> LogicalOr(OptionalField(partialSetup, "bedrockSecretAccessKey"), Str("")),
              bedrockSessionToken |-> LogicalOr(OptionalField(partialSetup, "bedrockSessionToken"), Nil)]
  IN  [dialect |-> "bedrock",
       bedrockBearerToken |-> credentials.bedrockBearerToken,
       bedrockAccessKeyId |-> credentials.bedrockAccessKeyId,
       bedrockSecretAccessKey |-> credentials.bedrockSecretAccessKey,
       bedrockSessionToken |-> credentials.bedrockSessionToken,
       bedrockRegion |-> LogicalOr(OptionalField(partialSetup, "bedrockRegion"), Str("us-west-2")),
       clientSideFetch |-> CsfBedrockAvailable(partialSetup) /\ ToBoolean(OptionalField(partialSetup, "csf"))]

(***************************************************************************)
(* middleware.js: Basic authentication of the protected paths.  Texts are  *)
(* sequences of character codes; null and undefined are <<>>, a text t is  *)
(* <<t>>.                                                                  *)
(***************************************************************************)
\* "/dashboard", "/admin/*"
ProtectedPaths ==
  << <<47, 100, 97, 115, 104, 98, 111, 97, 114, 100>>, <<47, 97, 100, 109, 105, 110, 47, 42>> >>

\* String.prototype.startsWith
StartsWith(text, prefix) == Len(prefix) <= Len(text) /\ SubSeq(text, 1, Len(prefix)) = prefix

\* String.prototype.split with a separator of one character: the pieces of
\* text from index i on, piece being the part of the current one read so far
RECURSIVE SplitFrom(_, _, _, _)
SplitFrom(text, separator, i, piece) ==
  IF i > Len(text) THEN <<piece>>
  ELSE IF text[i] = separator THEN <<piece>> \o SplitFrom(text, separator, i + 1, <<>>)
  ELSE SplitFrom(text, separator, i + 1, Append(piece, text[i]))
Split(text, separator) == SplitFrom(text, separator, 1, <<>>)
\* the element at index i of an array destructured, <<>> when there is none
ElementAt(pieces, i) == IF i <= Len(pieces) THEN <<pieces[i]>> ELSE <<>>

\* Buffer.from(encoded, 'base64'): decoding stops at the first '=', a
\* character outside the alphabets is skipped, '-' and '_' stand for '+' and
\* '/', and a last group of one sextet gives no byte
BufferSextet(c) == IF c = 45 THEN 62 ELSE IF c = 95 THEN 63 ELSE Base64Value(c)
RECURSIVE BufferSextetsFrom(_, _)
BufferSextetsFrom(encoded, i) ==
  IF i > Len(encoded) \/ encoded[i] = 61 THEN <<>>
  ELSE IF BufferSextet(encoded[i]) = Undefined THEN BufferSextetsFrom(encoded, i + 1)
  ELSE <<BufferSextet(encoded[i])>> \o BufferSextetsFrom(encoded, i + 1)
BufferFromBase64(encoded) ==
  LET sx == BufferSextetsFrom(encoded, 1)
      whole == IF Len(sx) % 4 = 1 THEN SubSeq(sx, 1, Len(sx) - 1) ELSE sx
  IN  CHOOSE result \in {Base64Groups(s, 1) : s \in {whole}} : TRUE

\* decodeBasicAuth: Buffer.from throws a TypeError for undefined
DecodeBasicAuth(authHeader) ==
  IF authHeader = <<>> \/ authHeader[1] = <<>> THEN <<>>
  ELSE LET encoded == ElementAt(Split(authHeader[1], 32), 2)
       IN  IF encoded = <<>> THEN <<>>
           ELSE <<TextDecode(BufferFromBase64(encoded[1]))>>

NextResponseNext == [next |-> TRUE]
NotAuthorized(body) ==
  [next |-> FALSE, status |-> 401, body |-> body, headers |-> [WWW_Authenticate |-> "Basic realm=\"Secure Area\""]]

\* middleware: req is [pathname, authorization], the environment holds
\* AUTH_USERNAME and AUTH_PASSWORD
MiddlewareResponse(req, env) ==
  IF \E i \in 1..Len(ProtectedPaths) : StartsWith(req.pathname, ProtectedPaths[i])
  THEN LET decodedAuth == DecodeBasicAuth(req.authorization)
       IN  IF decodedAuth # <<>> /\ decodedAuth[1] # <<>>
           THEN LET pieces == Split(decodedAuth[1], 58)
                    username == ElementAt(pieces, 1)
                    password == ElementAt(pieces, 2)
                IN  IF username = env.AUTH_USERNAME /\ password = env.AUTH_PASSWORD
                    THEN NextResponseNext
                    ELSE NotAuthorized("Not authorized - Invalid credentials")
           ELSE NotAuthorized("Not authorized")
  ELSE NextResponseNext

(***************************************************************************)
(* State.                                                                  *)
(***************************************************************************)
VARIABLES
  stream,            \* the bytes of the response body of this call
  pos,               \* how many of them the transform has received
  buffer,            \* demuxer: the unconsumed bytes
  failed,            \* demuxer: "" or the error transform threw (the stream is then errored)
  headAt,            \* offset in the stream of the frame at the head of the unconsumed data
  frames,            \* the frames decoded so far: [headers, payload, totalLength, events]
  sse,               \* the events enqueued so far, in order
  nParsed,           \* how many of them the parser has been called with
  flushed,           \* flush() has run
  residualWarning,   \* flush() warned of remaining bytes
  aborted,           \* the dispatcher has handled the failure of the stream
  hasErrored,        \* parser: the error flag
  currentToolUseId,  \* parser: the open tool-call id, <<>> for null
  particles,         \* every particle emitted in this call, in order
  nCalls,            \* calls of the parse function so far
  lastCall,          \* the last call: its event, the state and the number of particles before it,
                     \* and the particles it emitted
  aixModel,          \* adapter: the canonical model parameters
  chatGenerate,      \* adapter: the canonical request, after the spill of system images
  converse,          \* adapter: <<>>, or <<what aixToBedrockConverse returned or threw>>
  access,            \* auth: the access object of the client
  serverEnv,         \* auth: the BEDROCK_* variables of the server environment
  accessOutcome,     \* auth: <<>>, or <<the outcome of bedrockAccessAsync>>
  configOutcome,     \* auth: <<>>, or <<the outcome of bedrockServerConfig>>
  calls,             \* concurrent calls: for each call its own transform and parser instance
  fullData,          \* non-streaming parser: the body of the response
  nsOutcome,         \* non-streaming parser: <<>>, or <<what the parse function threw or emitted>>
  partialSetup,      \* vendor: the service settings of the client, <<>> for undefined
  transportAccess,   \* vendor: <<>>, or <<what getTransportAccess returned>>
  authEnv,           \* middleware: AUTH_USERNAME and AUTH_PASSWORD of the environment
  request,           \* middleware: the last request, <<>> before the first
  response           \* middleware: <<>>, or <<the response to the last request>>

demuxVars == <<stream, pos, buffer, failed, headAt, frames, sse, flushed, residualWarning>>
parserVars == <<hasErrored, currentToolUseId, particles, nCalls, lastCall>>
adapterVars == <<aixModel, chatGenerate, converse>>
authVars == <<access, serverEnv, accessOutcome, configOutcome>>
nsVars == <<fullData, nsOutcome>>
vendorVars == <<partialSetup, transportAccess>>
middlewareVars == <<authEnv, request, response>>
siteVars == <<vendorVars, middlewareVars>>
vars == <<stream, pos, buffer, failed, headAt, frames, sse, nParsed, flushed, residualWarning, aborted,
          hasErrored, currentToolUseId, particles, nCalls, lastCall,
          aixModel, chatGenerate, converse, access, serverEnv, accessOutcome, configOutcome, calls,
          fullData, nsOutcome, partialSetup, transportAccess, authEnv, request, response>>

InitParser ==
  /\ hasErrored = FALSE
  /\ currentToolUseId = <<>>
  /\ particles = <<>>
  /\ nCalls = 0
  /\ lastCall = [ev |-> EvNoName(T_empty), preErrored |-> FALSE, preToolUseId |-> <<>>, preLen |-> 0, out |-> <<>>]

InitDemux ==
  /\ pos = 0
  /\ buffer = <<>>
  /\ failed = ""
  /\ headAt = 0
  /\ frames = <<>>
  /\ sse = <<>>
  /\ nParsed = 0
  /\ flushed = FALSE
  /\ residualWarning = FALSE
  /\ aborted = FALSE

\* no request is being adapted, no access is being resolved
NoModelParameters ==
  [maxTokens |-> [k |-> "undefined"], temperature |-> [k |-> "undefined"], topP |-> [k |-> "undefined"]]
EmptyChatGenerate == [systemMessage |-> <<>>, chatSequence |-> <<>>, tools |-> <<>>, toolsPolicy |-> <<>>]
NoAccess ==
  [bedrockBearerToken |-> "", bedrockAccessKeyId |-> "", bedrockSecretAccessKey |-> "",
   bedrockSessionToken |-> "", bedrockRegion |-> ""]
NoServerEnv ==
  [BEDROCK_BEARER_TOKEN |-> "", BEDROCK_ACCESS_KEY_ID |-> "", BEDROCK_SECRET_ACCESS_KEY |-> "",
   BEDROCK_SESSION_TOKEN |-> "", BEDROCK_REGION |-> ""]
InitAdapter == converse = <<>>
InitAuth == accessOutcome = <<>> /\ configOutcome = <<>>
NoAdapterCall == aixModel = NoModelParameters /\ chatGenerate = EmptyChatGenerate /\ InitAdapter
NoAuthCall == access = NoAccess /\ serverEnv = NoServerEnv /\ InitAuth
NoOtherCalls == calls = <<>>
NoFullData == [isJson |-> FALSE, doc |-> JObj(<<>>)]
InitNS == nsOutcome = <<>>
NoEnv == [AUTH_USERNAME |-> <<>>, AUTH_PASSWORD |-> <<>>]
InitVendor == transportAccess = <<>>
InitMiddleware == request = <<>> /\ response = <<>>
NoVendorCall == partialSetup = <<>> /\ InitVendor
NoRequest == authEnv = NoEnv /\ InitMiddleware
NoSiteCall == NoVendorCall /\ NoRequest
NoFullResponse == fullData = NoFullData /\ InitNS

\* one call of the parse function with event ev
Parse(ev) ==
  LET r == ParseFunction(hasErrored, currentToolUseId, ev)
  IN  /\ hasErrored' = r.hasErrored
      /\ currentToolUseId' = r.currentToolUseId
      /\ particles' = particles \o r.out
      /\ nCalls' = nCalls + 1
      /\ lastCall' = [ev |-> ev, preErrored |-> hasErrored, preToolUseId |-> currentToolUseId,
                      preLen |-> Len(particles), out |-> r.out]

(***************************************************************************)
(* SpecParser: one parser instance fed any sequence of events.             *)
(***************************************************************************)
BadTexts == {T_empty, T_notJson}
ParserEvents ==
     {Ev(S_messageStart, d) : d \in {T_roleAssistant, T_roleUser, T_emptyObj} \cup BadTexts}
  \cup {Ev(S_contentBlockStart, d) : d \in {T_startTool1, T_startTool2, T_startText, T_emptyObj} \cup BadTexts}
  \cup {Ev(S_contentBlockDelta, d) : d \in {T_deltaText, T_deltaTool, T_emptyObj} \cup BadTexts}
  \cup {Ev(S_contentBlockStop, d) : d \in {T_blockStop, T_emptyObj} \cup BadTexts}
  \cup {Ev(S_messageStop, d) : d \in {T_stopEndTurn, T_stopStopSequence, T_stopToolUse, T_stopMaxTokens,
                                       T_stopGuardrail, T_stopFiltered, T_stopUnknown, T_emptyObj} \cup BadTexts}
  \cup {Ev(S_metadata, d) : d \in {T_usage, T_usageLatency, T_usageLatency0, T_emptyObj} \cup BadTexts}
  \cup {Ev(S_error, d) : d \in {T_errMessage} \cup BadTexts}
  \cup {Ev(S_ping, d) : d \in {T_emptyObj} \cup BadTexts}
  \cup {EvNoName(d) : d \in {T_emptyObj} \cup BadTexts}

FeedEvent ==
  /\ nCalls < MaxEvents
  /\ \E ev \in ParserEvents : Parse(ev)
  /\ UNCHANGED <<siteVars, calls, nsVars, adapterVars, authVars, demuxVars, nParsed, aborted>>

NextParser == FeedEvent
InitEvents == stream = <<>> /\ InitDemux /\ InitParser /\ NoAdapterCall /\ NoAuthCall /\ NoOtherCalls /\ NoFullResponse /\ NoSiteCall
SpecParser == InitEvents /\ [][NextParser]_vars

(***************************************************************************)
(* SpecStream: one streamed call. The response body arrives in chunks and  *)
(* is piped through the transform; each event it enqueues is handed, in    *)
(* order, to the parse function of the call.                               *)
(***************************************************************************)
\* a chunk is 1..MaxChunk bytes, or all the bytes that remain
ChunkSizes == (1..Min(MaxChunk, Len(stream) - pos)) \cup {Len(stream) - pos}

TransformChunk ==
  /\ failed = "" /\ ~flushed
  /\ pos < Len(stream)
  /\ \E n \in ChunkSizes :
       \E t \in {Transform(buffer, SubSeq(stream, pos + 1, pos + n))} :
           /\ pos' = pos + n
           /\ buffer' = t.buffer
           /\ failed' = (IF t.threw THEN t.error ELSE "")
           /\ headAt' = headAt + t.consumed
           /\ frames' = frames \o t.frames
           /\ sse' = sse \o t.enqueued
  /\ UNCHANGED <<siteVars, calls, nsVars, adapterVars, authVars, stream, nParsed, flushed, residualWarning, aborted, parserVars>>

\* variant for C13: the end of the body with bytes left over fails the transform
Flush_FailsOnResidue ==
  /\ failed = "" /\ ~flushed
  /\ pos = Len(stream)
  /\ flushed' = TRUE
  /\ residualWarning' = (Len(buffer) > 0)
  /\ failed' = (IF Len(buffer) > 0 THEN "Truncated stream" ELSE "")
  /\ UNCHANGED <<siteVars, calls, nsVars, adapterVars, authVars, stream, pos, buffer, headAt, frames, sse, nParsed, aborted, parserVars>>

\* flush(): the body has ended; warns when bytes remain
Flush ==
  /\ failed = "" /\ ~flushed
  /\ pos = Len(stream)
  /\ flushed' = TRUE
  /\ residualWarning' = (Len(buffer) > 0)
  /\ UNCHANGED <<siteVars, calls, nsVars, adapterVars, authVars, stream, pos, buffer, failed, headAt, frames, sse, nParsed, aborted, parserVars>>

\* the next enqueued event reaches the parse function
ParseNext ==
  /\ nParsed < Len(sse)
  /\ Parse(sse[nParsed + 1])
  /\ nParsed' = nParsed + 1
  /\ UNCHANGED <<siteVars, calls, nsVars, adapterVars, authVars, demuxVars, aborted>>

\* the dispatcher turns the failure of the stream into a terminating issue,
\* unless the call already has its terminal particle
DispatchStreamFailure ==
  /\ failed # "" /\ ~aborted
  /\ nParsed = Len(sse)
  /\ aborted' = TRUE
  /\ particles' = IF \E i \in 1..Len(particles) : IsTerminal(particles[i])
                  THEN particles
                  ELSE Append(particles, <<"terminating-issue", "dispatch", failed>>)
  /\ UNCHANGED <<siteVars, calls, nsVars, adapterVars, authVars, demuxVars, nParsed, hasErrored, currentToolUseId, nCalls, lastCall>>

InitStream == stream \in Streams /\ InitDemux /\ InitParser /\ NoAdapterCall /\ NoAuthCall /\ NoOtherCalls /\ NoFullResponse /\ NoSiteCall
NextStream == TransformChunk \/ Flush \/ ParseNext \/ DispatchStreamFailure
SpecStream == InitStream /\ [][NextStream]_vars

(***************************************************************************)
(* SpecAdapter: aixToBedrockConverse applied to a canonical request.       *)
(***************************************************************************)
\* the text, id or bytes of the part at position p of message m names that
\* position, so that a wire block tells which part it was made from
PositionNames ==
  << <<"m1p1", "m1p2">>, <<"m2p1", "m2p2">>, <<"m3p1", "m3p2">>, <<"m4p1", "m4p2">>, <<"m5p1", "m5p2">> >>
TextAt(m, p) == PositionNames[m][p]

PartOfKind(kind, m, p) ==
  CASE kind = "text" -> [pt |-> "text", text |-> TextAt(m, p)]
    [] kind = "inline_image" -> [pt |-> "inline_image", mimeType |-> <<"image", "png">>, base64 |-> TextAt(m, p)]
    [] kind = "doc" -> [pt |-> "doc", asString |-> TextAt(m, p)]
    [] kind = "meta_in_reference_to" -> [pt |-> "meta_in_reference_to", asXMLString |-> TextAt(m, p)]
    [] kind = "meta_in_reference_to_empty" -> [pt |-> "meta_in_reference_to", asXMLString |-> ""]
    [] kind = "tool_invocation" ->
         [pt |-> "tool_invocation", id |-> TextAt(m, p),
          invocation |-> [type |-> "function_call", name |-> "f", args |-> T_emptyObj]]
    [] kind = "code_execution" ->
         [pt |-> "tool_invocation", id |-> TextAt(m, p), invocation |-> [type |-> "code_execution"]]
    [] kind = "tool_response" ->
         [pt |-> "tool_response", id |-> TextAt(m, p), error |-> [k |-> "none"],
          response |-> [type |-> "function_call", result |-> "r"]]
    [] kind = "tool_response_error" ->
         [pt |-> "tool_response", id |-> TextAt(m, p), error |-> [k |-> "string", text |-> "boom"],
          response |-> [type |-> "code_execution", result |-> "r"]]
    [] OTHER -> [pt |-> kind]

\* the canonical messages fed to the adapter: a role, the kinds of its
\* parts, and whether it carries the flush marker
MessageShapes ==
  [role : {"user"}, kinds : {<<"text">>}, flush : BOOLEAN]
  \cup
  [role : {"user"},
   kinds : {<<>>, <<"inline_image", "doc">>, <<"meta_cache_control", "meta_in_reference_to_empty">>,
            <<"text", "tool_response">>},
   flush : {FALSE}]
  \cup
  [role : {"model"}, kinds : {<<"text">>, <<"ma", "inline_audio">>}, flush : BOOLEAN]
  \cup
  [role : {"model"}, kinds : {<<"text", "tool_invocation">>, <<"inline_image", "code_execution">>}, flush : {FALSE}]
  \cup
  [role : {"tool"}, kinds : {<<"tool_response">>}, flush : BOOLEAN]
  \cup
  [role : {"tool"}, kinds : {<<"meta_cache_control", "tool_response_error">>}, flush : {FALSE}]

RECURSIVE ShapeSequences(_)
ShapeSequences(n) ==
  IF n = 0 THEN {<<>>}
  ELSE LET shorter == ShapeSequences(n - 1)
       IN  shorter \cup {Append(s, x) : s \in {t \in shorter : Len(t) = n - 1}, x \in MessageShapes}

AixMessage(shape, m) ==
  [role |-> shape.role,
   parts |-> [p \in 1..Len(shape.kinds) |-> PartOfKind(shape.kinds[p], m, p)],
   flush |-> shape.flush]
ChatSequenceOf(shapes) == [m \in 1..Len(shapes) |-> AixMessage(shapes[m], m)]

InitRequest ==
  /\ aixModel = NoModelParameters
  /\ \E shapes \in ShapeSequences(MaxMessages) :
       chatGenerate = [systemMessage |-> <<>>, chatSequence |-> ChatSequenceOf(shapes),
                       tools |-> <<>>, toolsPolicy |-> <<>>]
  /\ InitAdapter

\* one call of aixToBedrockConverse
Adapt ==
  /\ converse = <<>>
  /\ \E r \in {AixToBedrockConverse(aixModel, chatGenerate)} : converse' = <<r>>
  /\ UNCHANGED <<siteVars, calls, nsVars, demuxVars, nParsed, aborted, parserVars, authVars, aixModel, chatGenerate>>

InitAdapt == stream = <<>> /\ InitDemux /\ InitParser /\ NoAuthCall /\ InitRequest /\ NoOtherCalls /\ NoFullResponse /\ NoSiteCall
NextAdapt == Adapt
SpecAdapter == InitAdapt /\ [][NextAdapt]_vars

(***************************************************************************)
(* Calls of the access functions: the client's access and the server's     *)
(* environment are drawn field by field, each field set or not.            *)
(***************************************************************************)
Methods == {"GET", "POST"}
SetOrNot(value) == {"", value}
Accesses ==
  [bedrockBearerToken : SetOrNot("c-bearer"), bedrockAccessKeyId : SetOrNot("c-key"),
   bedrockSecretAccessKey : SetOrNot("c-secret"), bedrockSessionToken : SetOrNot("c-session"),
   bedrockRegion : SetOrNot("eu-west-1")]
ServerEnvs ==
  [BEDROCK_BEARER_TOKEN : SetOrNot("s-bearer"), BEDROCK_ACCESS_KEY_ID : SetOrNot("s-key"),
   BEDROCK_SECRET_ACCESS_KEY : SetOrNot("s-secret"), BEDROCK_SESSION_TOKEN : SetOrNot("s-session"),
   BEDROCK_REGION : SetOrNot("ap-south-1")]
InitCredentials == access \in Accesses /\ serverEnv \in ServerEnvs /\ InitAuth

\* one call of bedrockAccessAsync
AccessAsync ==
  /\ accessOutcome = <<>>
  /\ \E method \in Methods : \E r \in {BedrockAccessAsync(access, serverEnv, method)} : accessOutcome' = <<r>>
  /\ UNCHANGED <<siteVars, calls, nsVars, demuxVars, nParsed, aborted, parserVars, adapterVars, access, serverEnv, configOutcome>>
\* one call of bedrockServerConfig
ServerConfig ==
  /\ configOutcome = <<>>
  /\ \E r \in {BedrockServerConfig(access, serverEnv)} : configOutcome' = <<r>>
  /\ UNCHANGED <<siteVars, calls, nsVars, demuxVars, nParsed, aborted, parserVars, adapterVars, access, serverEnv, accessOutcome>>

InitAccess == stream = <<>> /\ InitDemux /\ InitParser /\ NoAdapterCall /\ InitCredentials /\ NoOtherCalls /\ NoFullResponse /\ NoSiteCall
NextAuth == AccessAsync \/ ServerConfig
SpecAuth == InitAccess /\ [][NextAuth]_vars

(***************************************************************************)
(* SpecCalls: two streamed calls at once.  Each call has the transform     *)
(* createEventStreamToSSETransform() made for it and the parse function    *)
(* createBedrockConverseStreamParser() made for it; the chunks of the two  *)
(* bodies and the events of the two calls interleave in any order.         *)
(***************************************************************************)
CallIds == {1, 2}
CallStreams ==
  { Cat(<<F_startTool, F_deltaTool, F_blockStop, F_stopToolUse>>),
    Cat(<<F_deltaTool, F_deltaText, F_stopEndTurn>>),
    Cat(<<ErrorFrame(T_notJson), F_stopEndTurn>>),
    Cat(<<F_deltaText, Prelude(MIN_MESSAGE_LENGTH - 1)>>) }
\* a call before its first chunk: the state the two factories set up
NewCall(body) ==
  [stream |-> body, pos |-> 0, chunks |-> <<>>,
   buffer |-> <<>>, failed |-> "", sse |-> <<>>, flushed |-> FALSE,
   nParsed |-> 0, hasErrored |-> FALSE, currentToolUseId |-> <<>>, particles |-> <<>>]
InitTwoCalls == calls \in [CallIds -> {NewCall(body) : body \in CallStreams}]

\* variant for C22: one buffer, that of the first call, is read by every transform
BufferOf_Shared(cs, c) == cs[1].buffer

\* the buffer of the transform of call c: `let buffer` of its closure
BufferOf(cs, c) == cs[c].buffer
\* the state of the parse function of call c: `let hasErrored`, `let currentToolUseId`
ParserStateOf(cs, c) == [hasErrored |-> cs[c].hasErrored, currentToolUseId |-> cs[c].currentToolUseId]

\* a chunk of a call is MaxCallChunk bytes, or all the bytes that remain
CallChunkSizes(c) ==
  {n \in {MaxCallChunk, Len(calls[c].stream) - calls[c].pos} : n <= Len(calls[c].stream) - calls[c].pos}

CallTransformChunk ==
  /\ \E c \in CallIds :
       /\ calls[c].failed = "" /\ ~calls[c].flushed
       /\ calls[c].pos < Len(calls[c].stream)
       /\ \E n \in CallChunkSizes(c) :
            \E t \in {Transform(BufferOf(calls, c), SubSeq(calls[c].stream, calls[c].pos + 1, calls[c].pos + n))} :
              calls' = [calls EXCEPT ![c] =
                          [@ EXCEPT !.pos = @ + n, !.chunks = Append(@, n),
                                    !.buffer = t.buffer,
                                    !.failed = (IF t.threw THEN t.error ELSE ""),
                                    !.sse = @ \o t.enqueued]]
  /\ UNCHANGED <<siteVars, nsVars, adapterVars, authVars, demuxVars, nParsed, aborted, parserVars>>

CallFlush ==
  /\ \E c \in CallIds :
       /\ calls[c].failed = "" /\ ~calls[c].flushed
       /\ calls[c].pos = Len(calls[c].stream)
       /\ calls' = [calls EXCEPT ![c] = [@ EXCEPT !.flushed = TRUE]]
  /\ UNCHANGED <<siteVars, nsVars, adapterVars, authVars, demuxVars, nParsed, aborted, parserVars>>

CallParseNext ==
  /\ \E c \in CallIds :
       /\ calls[c].nParsed < Len(calls[c].sse)
       /\ \E s \in {ParserStateOf(calls, c)} :
            \E r \in {ParseFunction(s.hasErrored, s.currentToolUseId, calls[c].sse[calls[c].nParsed + 1])} :
              calls' = [calls EXCEPT ![c] =
                          [@ EXCEPT !.nParsed = @ + 1,
                                    !.hasErrored = r.hasErrored,
                                    !.currentToolUseId = r.currentToolUseId,
                                    !.particles = @ \o r.out]]
  /\ UNCHANGED <<siteVars, nsVars, adapterVars, authVars, demuxVars, nParsed, aborted, parserVars>>

InitCalls == stream = <<>> /\ InitDemux /\ InitParser /\ NoAdapterCall /\ NoAuthCall /\ NoFullResponse /\ InitTwoCalls /\ NoSiteCall
NextCalls == CallTransformChunk \/ CallFlush \/ CallParseNext
SpecCalls == InitCalls /\ [][NextCalls]_vars

(***************************************************************************)
(* SpecRequest: one call of aixToBedrockConverse with a request drawn in   *)
(* all its fields: system message, tool definitions, tools policy and      *)
(* model parameters, over a short chat.                                    *)
(***************************************************************************)
SystemTexts == <<"sys1", "sys2", "sys3">>
SystemPartOfKind(kind, p) ==
  CASE kind = "text" -> [pt |-> "text", text |-> SystemTexts[p]]
    [] kind = "doc" -> [pt |-> "doc", asString |-> SystemTexts[p]]
    [] kind = "inline_image" -> [pt |-> "inline_image", mimeType |-> "image/png", base64 |-> SystemTexts[p]]
    [] OTHER -> [pt |-> kind]
\* the kinds of the parts of the system message; tool_invocation is a kind
\* the types do not allow there
SystemShapes ==
  { <<>>, <<"text">>, <<"doc", "text">>, <<"meta_cache_control">>, <<"text", "meta_cache_control", "doc">>,
    <<"inline_image">>, <<"text", "inline_image">>, <<"meta_cache_control", "inline_image", "text">>,
    <<"text", "tool_invocation">> }
SystemMessages ==
  {<<>>} \cup { <<[parts |-> [p \in 1..Len(kinds) |-> SystemPartOfKind(kinds[p], p)]]>> : kinds \in SystemShapes }

FunctionCallTool(name, description, input_schema) ==
  [type |-> "function_call", name |-> name, description |-> description, input_schema |-> input_schema]
Tool_f1 == FunctionCallTool("f1", "first", <<[properties |-> "{a}", required |-> <<"a">>]>>)
Tool_f2 == FunctionCallTool("f2", "", <<>>)
Tool_ce == [type |-> "code_execution"]
ToolLists ==
  { <<>>, <<Tool_f1>>, <<Tool_ce>>, <<Tool_ce, Tool_f1>>, <<Tool_f2, Tool_ce, Tool_f1>>, <<Tool_ce, Tool_ce>> }
ToolsPolicies == { <<>>, <<[type |-> "auto"]>>, <<[type |-> "any"]>>, <<[type |-> "function_call", name |-> "f1"]>> }

NotSet == [k |-> "undefined"]
Number(v) == [k |-> "number", v |-> v]
ModelParameters ==
  [maxTokens : {NotSet, Number(1024)},
   temperature : {NotSet, [k |-> "null"], Number(0)},
   topP : {NotSet, Number(1)}]
ShortChats ==
  { <<>>, ChatSequenceOf(<<[role |-> "user", kinds |-> <<"text">>, flush |-> FALSE]>>),
    ChatSequenceOf(<<[role |-> "user", kinds |-> <<"text", "tool_response">>, flush |-> FALSE]>>) }

InitFullRequest ==
  /\ aixModel \in ModelParameters
  /\ chatGenerate \in [systemMessage : SystemMessages, chatSequence : ShortChats,
                       tools : ToolLists, toolsPolicy : ToolsPolicies]
  /\ InitAdapter
InitAdaptRequest == stream = <<>> /\ InitDemux /\ InitParser /\ NoAuthCall /\ NoOtherCalls /\ NoFullResponse /\ InitFullRequest /\ NoSiteCall
SpecRequest == InitAdaptRequest /\ [][NextAdapt]_vars

(***************************************************************************)
(* SpecResponse: one call of the non-streaming parse function on the body  *)
(* of a response.                                                          *)
(***************************************************************************)
BlockTexts == <<"b1", "b2", "b3", "b4">>
BlockIds == <<"u1", "u2", "u3", "u4">>
\* a content block of a kind at position i of the message
BlockOfKind(kind, i) ==
  CASE kind = "text" -> JObj([text |-> JStr(BlockTexts[i])])
    [] kind = "toolUse" ->
         JObj([toolUse |-> JObj([toolUseId |-> JStr(BlockIds[i]), name |-> JStr("f"),
                                 input |-> JObj([a |-> JNum(1)])])])
    [] kind = "toolUseNoInput" ->
         JObj([toolUse |-> JObj([toolUseId |-> JStr(BlockIds[i]), name |-> JStr("f")])])
    [] kind = "image" ->
         JObj([image |-> JObj([format |-> JStr("png"), source |-> JObj([bytes |-> JStr(BlockTexts[i])])])])
    [] kind = "toolResult" ->
         JObj([toolResult |-> JObj([toolUseId |-> JStr(BlockIds[i]),
                                    content |-> JArr(<<JObj([text |-> JStr(BlockTexts[i])])>>)])])
    [] OTHER -> JObj([video |-> JStr(BlockTexts[i])])
BlockKinds == {"text", "toolUse", "toolUseNoInput", "image", "toolResult"}
RECURSIVE KindSequences(_)
KindSequences(n) ==
  IF n = 0 THEN {<<>>}
  ELSE LET shorter == KindSequences(n - 1)
       IN  shorter \cup {Append(s, x) : s \in {t \in shorter : Len(t) = n - 1}, x \in BlockKinds}
ResponseStopReasons ==
  {"end_turn", "tool_use", "max_tokens", "stop_sequence", "guardrail_intervened", "content_filtered",
   "model_context_window_exceeded"}
ResponseOf(kinds, stopReason, latency) ==
  LET message == JObj([role |-> JStr("assistant"),
                       content |-> JArr([i \in 1..Len(kinds) |-> BlockOfKind(kinds[i], i)])])
      usage == JObj([inputTokens |-> JNum(1), outputTokens |-> JNum(2)])
  IN  IF latency = <<>>
      THEN JObj([output |-> JObj([message |-> message]), stopReason |-> JStr(stopReason), usage |-> usage])
      ELSE JObj([output |-> JObj([message |-> message]), stopReason |-> JStr(stopReason), usage |-> usage,
                 metrics |-> JObj([latencyMs |-> JNum(latency[1])])])
\* bodies the schema refuses: no usage, a block of no known kind, no stop reason
RefusedResponses ==
  { JObj([output |-> JObj([message |-> JObj([role |-> JStr("assistant"), content |-> JArr(<<>>)])]),
          stopReason |-> JStr("end_turn")]),
    JObj([output |-> JObj([message |-> JObj([role |-> JStr("assistant"),
                                             content |-> JArr(<<BlockOfKind("text", 1), BlockOfKind("video", 2)>>)])]),
          stopReason |-> JStr("end_turn"),
          usage |-> JObj([inputTokens |-> JNum(1), outputTokens |-> JNum(2)])]),
    JObj([output |-> JObj([message |-> JObj([role |-> JStr("assistant"), content |-> JArr(<<>>)])]),
          usage |-> JObj([inputTokens |-> JNum(1), outputTokens |-> JNum(2)])]) }
FullDatas ==
  {NoFullData}
  \cup {[isJson |-> TRUE, doc |-> d] : d \in RefusedResponses}
  \cup {[isJson |-> TRUE, doc |-> ResponseOf(kinds, stopReason, latency)] :
          kinds \in KindSequences(MaxBlocks), stopReason \in ResponseStopReasons, latency \in {<<>>, <<0>>, <<7>>}}
InitFullData == fullData \in FullDatas /\ InitNS

\* one call of the parse function of createBedrockConverseParserNS
ParseFullData ==
  /\ nsOutcome = <<>>
  /\ \E r \in {ParseFunctionNS(fullData)} : nsOutcome' = <<r>>
  /\ UNCHANGED <<siteVars, calls, adapterVars, authVars, demuxVars, nParsed, aborted, parserVars, fullData>>

InitResponse == stream = <<>> /\ InitDemux /\ InitParser /\ NoAdapterCall /\ NoAuthCall /\ NoOtherCalls /\ InitFullData /\ NoSiteCall
NextResponse == ParseFullData
SpecResponse == InitResponse /\ [][NextResponse]_vars

(***************************************************************************)
(* SpecScenario: one streamed call whose events the transform has already  *)
(* enqueued; the parse function of the call receives them in order.        *)
(***************************************************************************)
TextDeltas == {T_deltaText, T_deltaTextB}
ToolDeltas == {T_deltaTool, T_deltaToolB}
ToolStarts == {T_startTool1, T_startTool2}
DeltaSeqs(S) == UNION {[1..n -> S] : n \in 0..MaxDeltas}
EventsNamed(name, datas) == [i \in 1..Len(datas) |-> Ev(name, datas[i])]
TextEvents(datas) == EventsNamed(S_contentBlockDelta, datas) \o <<Ev(S_messageStop, T_stopEndTurn)>>
ToolEvents(start, datas) ==
  <<Ev(S_contentBlockStart, start)>> \o EventsNamed(S_contentBlockDelta, datas)
     \o <<Ev(S_contentBlockStop, T_blockStop), Ev(S_messageStop, T_stopToolUse)>>
StartOfMessage == {<<>>, <<Ev(S_messageStart, T_roleAssistant)>>}
\* the scenarios of a text answer and of one tool call, and calls that are neither:
\* a text block that is closed and followed by the usage, a text answer that stops
\* for another reason, a tool call whose block is never closed
ScenarioEvents ==
       {m \o TextEvents(d) : m \in StartOfMessage, d \in DeltaSeqs(TextDeltas)}
  \cup {m \o ToolEvents(s, d) : m \in StartOfMessage, s \in ToolStarts, d \in DeltaSeqs(ToolDeltas)}
  \cup {<<Ev(S_messageStart, T_roleAssistant), Ev(S_contentBlockStart, T_startText), Ev(S_contentBlockDelta, T_deltaText),
          Ev(S_contentBlockStop, T_blockStop), Ev(S_messageStop, T_stopEndTurn), Ev(S_metadata, T_usage)>>,
        <<Ev(S_contentBlockDelta, T_deltaText), Ev(S_messageStop, T_stopMaxTokens)>>,
        <<Ev(S_contentBlockStart, T_startTool1), Ev(S_contentBlockDelta, T_deltaTool), Ev(S_messageStop, T_stopToolUse)>>,
        <<Ev(S_contentBlockDelta, T_deltaTool), Ev(S_contentBlockStop, T_blockStop), Ev(S_messageStop, T_stopToolUse)>>}

InitEnqueued ==
  /\ stream = <<>>
  /\ pos = 0
  /\ buffer = <<>>
  /\ failed = ""
  /\ headAt = 0
  /\ frames = <<>>
  /\ sse \in ScenarioEvents
  /\ nParsed = 0
  /\ flushed = FALSE
  /\ residualWarning = FALSE
  /\ aborted = FALSE
InitScenario == InitEnqueued /\ InitParser /\ NoAdapterCall /\ NoAuthCall /\ NoOtherCalls /\ NoFullResponse /\ NoSiteCall
NextScenario == ParseNext
SpecScenario == InitScenario /\ [][NextScenario]_vars
(***************************************************************************)
(* Calls of getTransportAccess: the settings are undefined, or each field  *)
(* is undefined, empty or set.                                             *)
(***************************************************************************)
SettingOf(value) == {Absent, Str(""), Str(value)}
PartialSetups ==
  {<<>>} \cup
  { <<s>> : s \in [bedrockBearerToken : SettingOf("bearer"), bedrockAccessKeyId : SettingOf("key"),
                   bedrockSecretAccessKey : SettingOf("secret"), bedrockSessionToken : SettingOf("session"),
                   bedrockRegion : {Absent, Str("eu-west-1")}, csf : {Absent, Bool(FALSE), Bool(TRUE)}] }
InitPartialSetup == partialSetup \in PartialSetups /\ InitVendor

\* one call of getTransportAccess
TransportAccess ==
  /\ transportAccess = <<>>
  /\ \E r \in {GetTransportAccess(partialSetup)} : transportAccess' = <<r>>
  /\ UNCHANGED <<calls, nsVars, demuxVars, nParsed, aborted, parserVars, adapterVars, authVars, middlewareVars, partialSetup>>

InitSetup == stream = <<>> /\ InitDemux /\ InitParser /\ NoAdapterCall /\ NoAuthCall /\ NoOtherCalls /\ NoFullResponse /\ NoRequest /\ InitPartialSetup
NextVendor == TransportAccess
SpecVendor == InitSetup /\ [][NextVendor]_vars

(***************************************************************************)
(* Requests to the middleware.                                             *)
(***************************************************************************)
\* '/', '/api', '/admin', '/admin/', '/admin/users', '/admin/*', '/dashboard', '/dashboard/x', '/dashboards'
Pathnames ==
  { <<47>>,
    <<47, 97, 112, 105>>,
    <<47, 97, 100, 109, 105, 110>>,
    <<47, 97, 100, 109, 105, 110, 47>>,
    <<47, 97, 100, 109, 105, 110, 47, 117, 115, 101, 114, 115>>,
    <<47, 97, 100, 109, 105, 110, 47, 42>>,
    <<47, 100, 97, 115, 104, 98, 111, 97, 114, 100>>,
    <<47, 100, 97, 115, 104, 98, 111, 97, 114, 100, 47, 120>>,
    <<47, 100, 97, 115, 104, 98, 111, 97, 114, 100, 115>> }
\* the authorization header: none, the empty one, and
\*   'Basic dTpw' (u:p)
\*   'Basic dTpx' (u:q)
\*   'Basic dTpwOng=' (u:p:x)
\*   'Basic dQ==' (u)
\*   'Bearer dTpw' (another scheme, u:p)
\*   'Basic' (no encoded part)
\*   'Basic  dTpw' (two spaces: the encoded part is empty)
\*   'Basic !!!!' (no base64 character)
\*   'Basic d!Tpw' (u:p with a character that is skipped)
Authorizations ==
  { <<>>, << <<>> >>,
    << <<66, 97, 115, 105, 99, 32, 100, 84, 112, 119>> >>,
    << <<66, 97, 115, 105, 99, 32, 100, 84, 112, 120>> >>,
    << <<66, 97, 115, 105, 99, 32, 100, 84, 112, 119, 79, 110, 103, 61>> >>,
    << <<66, 97, 115, 105, 99, 32, 100, 81, 61, 61>> >>,
    << <<66, 101, 97, 114, 101, 114, 32, 100, 84, 112, 119>> >>,
    << <<66, 97, 115, 105, 99>> >>,
    << <<66, 97, 115, 105, 99, 32, 32, 100, 84, 112, 119>> >>,
    << <<66, 97, 115, 105, 99, 32, 33, 33, 33, 33>> >>,
    << <<66, 97, 115, 105, 99, 32, 100, 33, 84, 112, 119>> >> }
\* 'u', 'p' and 'p:x'
A_u == <<117>>
A_p == <<112>>
A_pColonX == <<112, 58, 120>>
\* the environment: both variables set, the password with a colon, the
\* password not set, neither set
AuthEnvs ==
  { [AUTH_USERNAME |-> <<A_u>>, AUTH_PASSWORD |-> <<A_p>>],
    [AUTH_USERNAME |-> <<A_u>>, AUTH_PASSWORD |-> <<A_pColonX>>],
    [AUTH_USERNAME |-> <<A_u>>, AUTH_PASSWORD |-> <<>>],
    NoEnv }
Requests == [pathname : Pathnames, authorization : Authorizations]
InitAuthEnv == authEnv \in AuthEnvs /\ InitMiddleware

\* one request handled by middleware
Middleware ==
  \E req \in Requests : \E r \in {MiddlewareResponse(req, authEnv)} :
    /\ request' = <<req>>
    /\ response' = <<r>>
    /\ UNCHANGED <<calls, nsVars, demuxVars, nParsed, aborted, parserVars, adapterVars, authVars, vendorVars, authEnv>>

InitServer == stream = <<>> /\ InitDemux /\ InitParser /\ NoAdapterCall /\ NoAuthCall /\ NoOtherCalls /\ NoFullResponse /\ NoVendorCall /\ InitAuthEnv
NextMiddleware == Middleware
SpecMiddleware == InitServer /\ [][NextMiddleware]_vars

(***************************************************************************)
(* Properties.                                                             *)
(***************************************************************************)
Terminals == {i \in 1..Len(particles) : IsTerminal(particles[i])}
Called == nCalls > 0
\* the particles emitted before the last call of the parse function
TerminalBeforeLastCall == \E i \in 1..lastCall.preLen : IsTerminal(particles[i])

\* the event handled by the last call raises inside the handler: its data is
\* not JSON, or does not pass the schema of its event name
SchemaAccepts(name, doc) ==
  CASE name = S_messageStart -> event_MessageStart_schema(doc).ok
    [] name = S_contentBlockStart -> event_ContentBlockStart_schema(doc).ok
    [] name = S_contentBlockDelta -> event_ContentBlockDelta_schema(doc).ok
    [] name = S_contentBlockStop -> event_ContentBlockStop_schema(doc).ok
    [] name = S_messageStop -> event_MessageStop_schema(doc).ok
    [] name = S_metadata -> event_Metadata_schema(doc).ok
    [] OTHER -> TRUE
IsJson(ev) == JSONParse(ev.data).ok
Raises(ev) == ~IsJson(ev) \/ (ev.named /\ ~SchemaAccepts(ev.name, JSONParse(ev.data).doc))
IssueOf(ev) == P_setDialectTerminatingIssue(IF IsJson(ev) THEN "ZodError" ELSE "SyntaxError")

\* C1 (SpecParser): at most one terminal particle (stream-ended or
\* terminating-issue) is emitted by one parser instance, and no particle of
\* any kind is emitted after it: a terminal particle is always the last one.
C1_TerminalIsLast ==
  \A i \in 1..Len(particles) : IsTerminal(particles[i]) => i = Len(particles)

\* C2 (SpecStream): a streamed call that received bytes and whose input has
\* ended (the body ended and was flushed, or the stream failed and the
\* failure was handled), with every enqueued event parsed, has emitted
\* exactly one terminal particle.
CallEnded == nParsed = Len(sse) /\ (flushed \/ aborted)
C2_EndedCallHasOneTerminal ==
  (CallEnded /\ pos > 0) => Cardinality(Terminals) = 1

\* C3 (SpecStream): a frame whose :message-type is error or exception, or
\* whose :event-type is a Bedrock exception tag, is re-encoded as one 'error'
\* event, and the parser answers an 'error' event (handled before any
\* terminal particle) with a terminating-issue particle.
IsErrorFrame(f) ==
  \/ HeadersGet(f.headers, S_messageType) \in {<<S_exception>>, <<S_error>>}
  \/ \E tag \in BedrockExceptionTypes : HeadersGet(f.headers, S_eventType) = <<tag>>
C3_ErrorFrameEndsCall ==
  /\ \A i \in 1..Len(frames) :
       IsErrorFrame(frames[i]) => Len(frames[i].events) = 1 /\ frames[i].events[1].name = S_error
  /\ (Called /\ lastCall.ev.named /\ lastCall.ev.name = S_error /\ ~lastCall.preErrored /\ ~TerminalBeforeLastCall)
       => \E k \in 1..Len(lastCall.out) : lastCall.out[k][1] = "terminating-issue"

\* C4 (SpecStream): however the byte stream is split into chunks, once the
\* transform has failed or has received the whole stream, the events it
\* enqueued and whether it failed are those of feeding the whole stream as
\* one chunk.
C4_ChunkingIndependent ==
  (failed # "" \/ pos = Len(stream)) =>
    /\ sse = Transform(<<>>, stream).enqueued
    /\ (failed # "") = Transform(<<>>, stream).threw

\* C5 (SpecStream): a head frame that declares a total length below 16 or
\* above 25 MB fails the transform as soon as its 12-byte prelude is
\* available (no state has the prelude of such a frame available and the
\* transform not failed); the events enqueued are then exactly those of the
\* frames before it, and stay so.
BadTotalLength(n) == n < 16 \/ n > 25 * 1024 * 1024
C5_BadLengthFailsAtPrelude ==
  /\ (failed = "" /\ pos - headAt >= 12) => ~BadTotalLength(GetUint32(stream, headAt))
  /\ failed = "Invalid frame total_length" =>
       /\ pos - headAt >= 12 /\ BadTotalLength(GetUint32(stream, headAt))
       /\ sse = Transform(<<>>, SubSeq(stream, 1, headAt)).enqueued
       /\ Len(frames) = Len(Transform(<<>>, SubSeq(stream, 1, headAt)).frames)
C5_Witness ==
  /\ failed = "Invalid frame total_length"
  /\ GetUint32(stream, headAt) > 25 * 1024 * 1024
  /\ Len(sse) = 1 /\ nParsed = 1
  /\ pos = Len(stream) /\ Len(stream) > headAt + 12

\* C6 (SpecParser): a call that raises a JSON-parse or schema exception sets
\* the error flag and emits exactly one terminating-issue particle carrying
\* the error message; a call on an errored parser emits nothing and changes
\* no state, so the flag is never cleared.
C6_ErrorIsReportedOnceAndSticks ==
  Called =>
    /\ (~lastCall.preErrored /\ Raises(lastCall.ev)) =>
         /\ hasErrored
         /\ lastCall.out = <<IssueOf(lastCall.ev)>>
         /\ currentToolUseId = lastCall.preToolUseId
    /\ lastCall.preErrored =>
         /\ hasErrored
         /\ lastCall.out = <<>>
         /\ currentToolUseId = lastCall.preToolUseId
         /\ Len(particles) = lastCall.preLen
    /\ Cardinality({i \in 1..Len(particles) : particles[i][1] = "terminating-issue"}) <= 1
C6_Witness ==
  /\ nCalls = 3 /\ hasErrored
  /\ lastCall.preErrored /\ lastCall.ev = Ev(S_messageStop, T_stopEndTurn)
  /\ particles = <<P_appendText("a"), P_setDialectTerminatingIssue("ZodError")>>

\* C7 (SpecParser): every tool-call-arg-append particle carries the id of a
\* tool-call-start particle emitted earlier, with no part-end particle
\* between that start and the append.
C7_ArgsFollowOpenStart ==
  \A i \in 1..Len(particles) :
    particles[i][1] = "tool-call-arg-append" =>
      \E j \in 1..(i - 1) :
        /\ particles[j][1] = "tool-call-start"
        /\ particles[j][2] = particles[i][2]
        /\ \A k \in (j + 1)..(i - 1) : particles[k][1] # "part-end"
C7_Witness ==
  particles = <<P_startFunctionCallInvocation("t1", "f"), P_startFunctionCallInvocation("t2", "g"),
                P_appendFunctionCallInvocationArgs("t2", "{")>>

\* C8 (SpecParser): between two tool-call-start particles there is always a
\* part-end particle.
C8_StartsSeparatedByPartEnd ==
  \A i, j \in 1..Len(particles) :
    (i < j /\ particles[i][1] = "tool-call-start" /\ particles[j][1] = "tool-call-start")
      => \E k \in (i + 1)..(j - 1) : particles[k][1] = "part-end"

\* C9: the canonical stop reasons, in the names the code gives them
\* (ok-tool_invocations is ok-with-tool-calls, filter-content is filtered)
CanonicalStopReasons == {"ok", "ok-tool_invocations", "out-of-tokens", "filter-content", "other"}
KnownStopReasons ==
  {"end_turn", "stop_sequence", "tool_use", "max_tokens", "guardrail_intervened", "content_filtered"}
CanonicalOf(stopReason) ==
  CASE stopReason \in {"end_turn", "stop_sequence"} -> "ok"
    [] stopReason = "tool_use" -> "ok-tool_invocations"
    [] stopReason = "max_tokens" -> "out-of-tokens"
    [] OTHER -> "filter-content"
\* the last call handled, on a parser that had not errored, a messageStop
\* event whose payload has a string stopReason
HandledMessageStop ==
  /\ Called /\ ~lastCall.preErrored
  /\ lastCall.ev.named /\ lastCall.ev.name = S_messageStop
  /\ ~Raises(lastCall.ev)
LastStopReason == JSONParse(lastCall.ev.data).doc.v.stopReason.v

\* C9 as stated (SpecParser): every messageStop event, whatever its
\* stopReason, makes the parser emit a stop-reason particle with a canonical
\* value and, immediately after it, the stream-ended particle.
C9_EveryStopHasReason ==
  HandledMessageStop =>
    /\ Len(lastCall.out) = 2
    /\ lastCall.out[1][1] = "stop-reason" /\ lastCall.out[1][2] \in CanonicalStopReasons
    /\ lastCall.out[2] = P_setDialectEnded

\* C9 amended (SpecParser): a messageStop event whose stopReason is one of
\* the six known values makes the parser emit the stop-reason particle with
\* the mapped value and, immediately after it, the stream-ended particle; a
\* messageStop event with any other stopReason makes it emit the
\* stream-ended particle alone.
C9_KnownStopHasReason ==
  HandledMessageStop =>
    IF LastStopReason \in KnownStopReasons
    THEN lastCall.out = <<P_setTokenStopReason(CanonicalOf(LastStopReason)), P_setDialectEnded>>
    ELSE lastCall.out = <<P_setDialectEnded>>
C9_Witness ==
  /\ HandledMessageStop /\ LastStopReason = "model_context_window_exceeded"
  /\ particles = <<P_appendText("a"), P_setDialectEnded>>

\* C10 (SpecParser): an event whose name is not a recognized Converse event
\* name, or that has no name, makes the parser emit no particle and does
\* not set the error flag, whatever its payload.
Recognized(ev) == ev.named /\ ev.name \in ConverseEventTypes
C10_UnknownEventIsIgnored ==
  (Called /\ ~lastCall.preErrored /\ ~Recognized(lastCall.ev)) => (lastCall.out = <<>> /\ ~hasErrored)

\* C11 (SpecParser): a tool-input contentBlockDelta event handled while no
\* tool-call id is open (none was opened, or contentBlockStop closed the
\* last one) emits no particle, leaves the error flag unset and leaves the
\* open id as it was (none), so the parser is in the state it was in.
ToolInputDelta(ev) ==
  /\ ev.named /\ ev.name = S_contentBlockDelta /\ IsJson(ev)
  /\ event_ContentBlockDelta_schema(JSONParse(ev.data).doc).ok
  /\ event_ContentBlockDelta_schema(JSONParse(ev.data).doc).member = "toolUse"
C11_DeltaWithoutOpenToolIsDropped ==
  (Called /\ ~lastCall.preErrored /\ lastCall.preToolUseId = <<>> /\ ToolInputDelta(lastCall.ev)) =>
    /\ lastCall.out = <<>>
    /\ Len(particles) = lastCall.preLen
    /\ ~hasErrored
    /\ currentToolUseId = <<>>
C11_Witness ==
  /\ nCalls = 3 /\ ToolInputDelta(lastCall.ev) /\ ~lastCall.preErrored /\ lastCall.preToolUseId = <<>>
  /\ particles = <<P_startFunctionCallInvocation("t1", "f"), P_endMessagePart>>

\* C12: the head frame is the frame that starts at headAt, the first byte
\* not consumed; Available is how much of the stream from there on has been
\* received
Available == pos - headAt
HeadTotalLength == GetUint32(stream, headAt)
HeadIncomplete == Available < 12 \/ Available < HeadTotalLength
HeadLengthSane == Available >= 12 => ~BadTotalLength(HeadTotalLength)
RECURSIVE TotalLengthFrom(_, _)
TotalLengthFrom(fs, i) == IF i > Len(fs) THEN 0 ELSE fs[i].totalLength + TotalLengthFrom(fs, i + 1)
\* the transform has not failed, holds exactly the bytes received from the
\* start of the head frame on, and has enqueued the events of the frames
\* before the head frame and no other
HeadFrameRetained ==
  /\ failed = ""
  /\ headAt <= pos /\ buffer = SubSeq(stream, headAt + 1, pos)
  /\ TotalLengthFrom(frames, 1) = headAt
  /\ sse = EventsOf(frames)

\* C12 as stated (SpecStream): while fewer bytes than the declared total
\* length of the head frame, or fewer than its 12-byte prelude, are
\* available, the transform has not failed, has emitted no event for that
\* frame and retains all of its bytes.
C12_IncompleteFrameWaits ==
  HeadIncomplete => HeadFrameRetained

\* C12 amended (SpecStream): while fewer than 12 bytes of the head frame are
\* available, or its declared total length is within 16 .. 25 MB and fewer
\* bytes than that are available, the transform has not failed, has emitted
\* no event for that frame and retains all of its bytes; and a transform
\* that has not failed never holds a complete head frame: the frame was
\* decoded in the chunk that completed it.
C12_IncompleteSaneFrameWaits ==
  /\ (HeadIncomplete /\ HeadLengthSane) => HeadFrameRetained
  /\ failed = "" => HeadIncomplete
C12_Witness ==
  /\ failed = "" /\ Available >= 12 /\ Available < HeadTotalLength /\ HeadLengthSane
  /\ Len(frames) = 1 /\ Len(sse) = 1

\* C13 (SpecStream): when the body has ended while bytes of a partial frame
\* are still held, the transform has not failed, a warning was produced, and
\* the events enqueued are exactly those of the complete frames, which are
\* the frames of the stream up to the partial frame.
C13_TruncatedStreamOnlyWarns ==
  (flushed /\ Len(buffer) > 0) =>
    /\ failed = ""
    /\ residualWarning
    /\ sse = EventsOf(frames)
    /\ TotalLengthFrom(frames, 1) + Len(buffer) = Len(stream)
    /\ sse = Transform(<<>>, SubSeq(stream, 1, Len(stream) - Len(buffer))).enqueued
C13_Witness ==
  /\ flushed /\ Len(buffer) = 20 /\ residualWarning /\ failed = ""
  /\ sse = <<Ev(S_messageStop, T_stopEndTurn)>> /\ nParsed = 1

\* C14: the headers of a header block read by the layout of the format,
\* [1-byte name length][name][1-byte value type][value], up to the first
\* header of a value type outside 0..9; unknown says whether there is one
RECURSIVE HeaderBlockWalk(_, _, _)
HeaderBlockWalk(hb, i, acc) ==
  IF i > Len(hb) THEN [unknown |-> FALSE, headers |-> acc]
  ELSE LET nameLength == hb[i]
           typeAt == i + 1 + nameLength
       IN  IF typeAt > Len(hb) THEN [unknown |-> FALSE, headers |-> acc]
           ELSE IF hb[typeAt] \in {6, 7}
           THEN IF typeAt + 2 > Len(hb) THEN [unknown |-> FALSE, headers |-> acc]
                ELSE LET valueLength == hb[typeAt + 1] * 256 + hb[typeAt + 2]
                     IN  HeaderBlockWalk(hb, typeAt + 3 + valueLength,
                           IF hb[typeAt] = 7
                           THEN HeadersSet(acc, SubSeq(hb, i + 1, i + nameLength),
                                           SubSeq(hb, typeAt + 3, typeAt + 2 + valueLength))
                           ELSE acc)
           ELSE IF hb[typeAt] \in {0, 1} THEN HeaderBlockWalk(hb, typeAt + 1, acc)
           ELSE IF hb[typeAt] = 2 THEN HeaderBlockWalk(hb, typeAt + 2, acc)
           ELSE IF hb[typeAt] = 3 THEN HeaderBlockWalk(hb, typeAt + 3, acc)
           ELSE IF hb[typeAt] = 4 THEN HeaderBlockWalk(hb, typeAt + 5, acc)
           ELSE IF hb[typeAt] \in {5, 8} THEN HeaderBlockWalk(hb, typeAt + 9, acc)
           ELSE IF hb[typeAt] = 9 THEN HeaderBlockWalk(hb, typeAt + 17, acc)
           ELSE [unknown |-> TRUE, headers |-> acc]
\* the frame of the stream that starts at offset o: its two lengths, its
\* header block and its payload
StreamTotalLength(o) == GetUint32(stream, o)
StreamHeadersLength(o) == GetUint32(stream, o + 4)
StreamHeaderBlock(o) == SubSeq(stream, o + 13, o + 12 + StreamHeadersLength(o))
StreamPayload(o) == SubSeq(stream, o + 13 + StreamHeadersLength(o), o + StreamTotalLength(o) - 4)
HasUnknownHeaderType(o) == HeaderBlockWalk(StreamHeaderBlock(o), 1, <<>>).unknown
\* the offset in the stream at which the i-th decoded frame was read
StartOf(i) == TotalLengthFrom(frames, 1) - TotalLengthFrom(frames, i)

\* C14 (SpecStream): a frame with a header of unknown value type is decoded
\* without failing as soon as it is complete; it keeps the headers in front
\* of the unknown one, its payload is the bytes between the declared end of
\* the header block and the trailing checksum, it is consumed by its total
\* length, and the frame decoded after it is the frame of the stream that
\* starts right behind it.
C14_UnknownHeaderTypeStopsHeaderParse ==
  /\ \A i \in 1..Len(frames) :
       HasUnknownHeaderType(StartOf(i)) =>
         /\ frames[i].headers = HeaderBlockWalk(StreamHeaderBlock(StartOf(i)), 1, <<>>).headers
         /\ frames[i].payload = StreamPayload(StartOf(i))
         /\ frames[i].totalLength = StreamTotalLength(StartOf(i))
         /\ i < Len(frames) =>
              /\ frames[i + 1].totalLength = StreamTotalLength(StartOf(i) + StreamTotalLength(StartOf(i)))
              /\ frames[i + 1].payload = StreamPayload(StartOf(i) + StreamTotalLength(StartOf(i)))
  /\ (Available >= 12 /\ ~BadTotalLength(HeadTotalLength) /\ Available >= HeadTotalLength)
       => ~HasUnknownHeaderType(headAt)
C14_Witness ==
  /\ Len(frames) = 2 /\ HasUnknownHeaderType(0) /\ failed = ""
  /\ frames[1].headers = <<<<S_eventType, S_contentBlockDelta>>>>
  /\ sse = <<Ev(S_contentBlockDelta, T_deltaText), Ev(S_messageStop, T_stopEndTurn)>>
  /\ particles = <<P_appendText("a"), P_setTokenStopReason("ok"), P_setDialectEnded>>

(***************************************************************************)
(* Properties of the adapter.                                              *)
(***************************************************************************)
Adapted == converse # <<>> /\ ~converse[1].threw
Wire == converse[1].messages
ChatSequence == chatGenerate.chatSequence
\* the wire role of a canonical role
MapRole(role) == IF role = "model" THEN "assistant" ELSE "user"
\* the position name a wire block carries, and the message and part it names
OriginOf(content) ==
  IF "text" \in DOMAIN content THEN content.text
  ELSE IF "image" \in DOMAIN content THEN content.image.source.bytes
  ELSE IF "toolUse" \in DOMAIN content THEN content.toolUse.toolUseId
  ELSE content.toolResult.toolUseId
MessageOf(name) ==
  CHOOSE m \in 1..Len(PositionNames) : \E p \in 1..Len(PositionNames[m]) : PositionNames[m][p] = name
PartOf(name) == CHOOSE p \in 1..Len(PositionNames[MessageOf(name)]) : PositionNames[MessageOf(name)][p] = name
\* the content blocks of the wire messages read in order: the wire message
\* w a block is in, the role of that message, and the canonical message m
\* and part p it was made from
RECURSIVE WireBlocksFrom(_, _)
WireBlocksFrom(ms, j) ==
  IF j > Len(ms) THEN <<>>
  ELSE [b \in 1..Len(ms[j].content) |->
          [w |-> j, role |-> ms[j].role,
           m |-> MessageOf(OriginOf(ms[j].content[b])), p |-> PartOf(OriginOf(ms[j].content[b]))]]
       \o WireBlocksFrom(ms, j + 1)
WireBlocks == WireBlocksFrom(Wire, 1)
WireRoles == [j \in 1..Len(Wire) |-> Wire[j].role]
Produces(m) == \E i \in 1..Len(WireBlocks) : WireBlocks[i].m = m
FlushBetween(m1, m2) == \E k \in m1..(m2 - 1) : ChatSequence[k].flush
\* the wire message that holds the first, and the last, block of message m
FirstWireOf(m) == WireBlocks[CHOOSE i \in 1..Len(WireBlocks) :
                     WireBlocks[i].m = m /\ \A k \in 1..(i - 1) : WireBlocks[k].m # m].w
LastWireOf(m) == WireBlocks[CHOOSE i \in 1..Len(WireBlocks) :
                    WireBlocks[i].m = m /\ \A k \in (i + 1)..Len(WireBlocks) : WireBlocks[k].m # m].w

\* the blocks are in the order of the messages and parts they were made from
BlocksInCanonicalOrder ==
  \A i, k \in 1..Len(WireBlocks) :
    i < k => \/ WireBlocks[i].m < WireBlocks[k].m
             \/ (WireBlocks[i].m = WireBlocks[k].m /\ WireBlocks[i].p < WireBlocks[k].p)
\* a sequence of roles with adjacent equal roles collapsed
RECURSIVE CollapseFrom(_, _)
CollapseFrom(roles, i) ==
  IF i > Len(roles) THEN <<>>
  ELSE (IF i > 1 /\ roles[i - 1] = roles[i] THEN <<>> ELSE <<roles[i]>>) \o CollapseFrom(roles, i + 1)
CanonicalRolesMapped == [m \in 1..Len(ChatSequence) |-> MapRole(ChatSequence[m].role)]
\* the mapped roles of the messages from m on that produced content, an
\* equal role being collapsed into the one before it (of message last, 0
\* for none) unless a flush marker lies between the two messages
RECURSIVE ProducedRolesFrom(_, _)
ProducedRolesFrom(m, last) ==
  IF m > Len(ChatSequence) THEN <<>>
  ELSE IF ~Produces(m) THEN ProducedRolesFrom(m + 1, last)
  ELSE (IF /\ last > 0
           /\ MapRole(ChatSequence[last].role) = MapRole(ChatSequence[m].role)
           /\ ~FlushBetween(last, m)
        THEN <<>> ELSE <<MapRole(ChatSequence[m].role)>>)
       \o ProducedRolesFrom(m + 1, m)

\* C15 as stated (SpecAdapter): the content blocks of the wire messages are
\* in the order of the canonical messages and parts they were made from, and
\* the wire role sequence is the canonical role sequence with the roles
\* mapped and adjacent equal roles collapsed.
C15_OrderAndCollapsedRoles ==
  Adapted =>
    /\ BlocksInCanonicalOrder
    /\ WireRoles = CollapseFrom(CanonicalRolesMapped, 1)

\* C15 amended (SpecAdapter): the content blocks of the wire messages are in
\* the order of the canonical messages and parts they were made from, each
\* in a wire message of the mapped role of its canonical message, and the
\* wire role sequence is the sequence of the mapped roles of the canonical
\* messages that produced content, with adjacent equal roles collapsed
\* except across a flush marker.
C15_OrderAndProducedRoles ==
  Adapted =>
    /\ BlocksInCanonicalOrder
    /\ \A i \in 1..Len(WireBlocks) : WireBlocks[i].role = MapRole(ChatSequence[WireBlocks[i].m].role)
    /\ WireRoles = ProducedRolesFrom(1, 0)
C15_Witness ==
  /\ Adapted /\ Len(ChatSequence) = 3
  /\ ChatSequence[1].role = "user" /\ ChatSequence[2].role = "model" /\ ChatSequence[3].role = "user"
  /\ ~Produces(2) /\ ~FlushBetween(1, 3)
  /\ Len(Wire) = 1 /\ Len(WireBlocks) = 3 /\ WireBlocks[3].m = 3

\* C16 (SpecAdapter): two consecutive wire messages have the same role only
\* when a canonical message between the last block of the first and the
\* first block of the second carries a flush marker; and no wire message
\* holds a block made from a message up to a flush marker together with a
\* block made from a message after it.
C16_FlushEndsWireMessage ==
  Adapted =>
    /\ \A i \in 1..(Len(WireBlocks) - 1) :
         (WireBlocks[i].w # WireBlocks[i + 1].w /\ WireBlocks[i].role = WireBlocks[i + 1].role)
           => FlushBetween(WireBlocks[i].m, WireBlocks[i + 1].m)
    /\ \A i \in 1..(Len(WireBlocks) - 1) :
         FlushBetween(WireBlocks[i].m, WireBlocks[i + 1].m) => WireBlocks[i].w # WireBlocks[i + 1].w
C16_Witness ==
  /\ Adapted /\ Len(ChatSequence) = 2
  /\ ChatSequence[1].role = "tool" /\ ChatSequence[1].flush /\ ChatSequence[2].role = "user"
  /\ WireRoles = <<"user", "user">> /\ Len(WireBlocks) = 2

\* C17 as stated (SpecAdapter): two consecutive canonical messages of
\* different roles that both produce content are in different wire
\* messages: the first block of the second starts a new wire message.
C17_RoleChangeStartsWireMessage ==
  Adapted =>
    \A m \in 1..(Len(ChatSequence) - 1) :
      (Produces(m) /\ Produces(m + 1) /\ ChatSequence[m].role # ChatSequence[m + 1].role)
        => LastWireOf(m) # FirstWireOf(m + 1)

\* C17 amended (SpecAdapter): for two consecutive canonical messages that
\* both produce content, the second starts a new wire message when their
\* wire roles differ (user and tool both map to user, model maps to
\* assistant); when their wire roles are equal, as for a tool message and a
\* user message, the second starts a new wire message only when the first
\* carries a flush marker.
C17_WireRoleChangeStartsWireMessage ==
  Adapted =>
    \A m \in 1..(Len(ChatSequence) - 1) :
      (Produces(m) /\ Produces(m + 1)) =>
        (LastWireOf(m) # FirstWireOf(m + 1))
          = (MapRole(ChatSequence[m].role) # MapRole(ChatSequence[m + 1].role) \/ ChatSequence[m].flush)
C17_Witness ==
  /\ Adapted /\ Len(ChatSequence) = 2
  /\ ChatSequence[1].role = "tool" /\ ~ChatSequence[1].flush /\ ChatSequence[2].role = "user"
  /\ Produces(1) /\ Produces(2)
  /\ Len(Wire) = 1 /\ Len(Wire[1].content) = 2

(***************************************************************************)
(* Properties of the resolution of the credentials.                        *)
(***************************************************************************)
\* the four candidates in the order of their priority, and whether the
\* call was made with all it takes for each
CandidatePopulated(k) ==
  CASE k = 1 -> access.bedrockBearerToken # ""
    [] k = 2 -> access.bedrockAccessKeyId # "" /\ access.bedrockSecretAccessKey # ""
    [] k = 3 -> serverEnv.BEDROCK_BEARER_TOKEN # ""
    [] k = 4 -> serverEnv.BEDROCK_ACCESS_KEY_ID # "" /\ serverEnv.BEDROCK_SECRET_ACCESS_KEY # ""
\* the auth context is the one of candidate k
CandidateUsed(auth, k) ==
  CASE k = 1 -> auth.type = "bearer" /\ auth.bearerToken = access.bedrockBearerToken
    [] k = 2 -> /\ auth.type = "sigv4"
                /\ auth.accessKeyId = access.bedrockAccessKeyId
                /\ auth.secretAccessKey = access.bedrockSecretAccessKey
    [] k = 3 -> auth.type = "bearer" /\ auth.bearerToken = serverEnv.BEDROCK_BEARER_TOKEN
    [] k = 4 -> /\ auth.type = "sigv4"
                /\ auth.accessKeyId = serverEnv.BEDROCK_ACCESS_KEY_ID
                /\ auth.secretAccessKey = serverEnv.BEDROCK_SECRET_ACCESS_KEY
AccessCalled == accessOutcome # <<>>
AccessResolved == AccessCalled /\ ~accessOutcome[1].threw
ConfigResolved == configOutcome # <<>> /\ ~configOutcome[1].threw

SecretsFromClient(auth) ==
  IF "bearerToken" \in DOMAIN auth
  THEN auth.bearerToken = access.bedrockBearerToken
  ELSE /\ auth.accessKeyId = access.bedrockAccessKeyId
       /\ auth.secretAccessKey = access.bedrockSecretAccessKey
       /\ auth.sessionToken = access.bedrockSessionToken
SecretsFromServer(auth) ==
  IF "bearerToken" \in DOMAIN auth
  THEN auth.bearerToken = serverEnv.BEDROCK_BEARER_TOKEN
  ELSE /\ auth.accessKeyId = serverEnv.BEDROCK_ACCESS_KEY_ID
       /\ auth.secretAccessKey = serverEnv.BEDROCK_SECRET_ACCESS_KEY
       /\ auth.sessionToken = serverEnv.BEDROCK_SESSION_TOKEN

\* C19 (SpecAuth): the auth context bedrockAccessAsync resolves, and the
\* configuration bedrockServerConfig resolves, have all their secret fields
\* from the client's access or all from the server's environment.
C19_SecretsFromOneSource ==
  /\ AccessResolved =>
       SecretsFromClient(accessOutcome[1].auth[1]) \/ SecretsFromServer(accessOutcome[1].auth[1])
  /\ ConfigResolved =>
       SecretsFromClient(configOutcome[1].value) \/ SecretsFromServer(configOutcome[1].value)
C19_Witness ==
  /\ AccessResolved /\ ConfigResolved
  /\ access.bedrockBearerToken = "" /\ access.bedrockAccessKeyId = ""
  /\ access.bedrockSecretAccessKey # "" /\ access.bedrockSessionToken # ""
  /\ serverEnv.BEDROCK_BEARER_TOKEN = "" /\ serverEnv.BEDROCK_SESSION_TOKEN = ""
  /\ accessOutcome[1].auth[1].sessionToken = "" /\ configOutcome[1].value.sessionToken = ""
  /\ SecretsFromServer(accessOutcome[1].auth[1]) /\ SecretsFromServer(configOutcome[1].value)

\* C20 (SpecAuth): a call of bedrockAccessAsync made when none of the four
\* candidates is fully populated throws the missing-credentials error,
\* returns no headers and signs no request.
C20_NoCandidateFailsBeforeSigning ==
  (AccessCalled /\ \A k \in 1..4 : ~CandidatePopulated(k)) =>
    /\ accessOutcome[1].threw
    /\ accessOutcome[1].error = MissingCredentials
    /\ accessOutcome[1].headers = <<>>
    /\ accessOutcome[1].signed = <<>>
C20_Witness ==
  /\ AccessCalled /\ \A k \in 1..4 : ~CandidatePopulated(k)
  /\ access.bedrockAccessKeyId # "" /\ serverEnv.BEDROCK_SECRET_ACCESS_KEY # ""
  /\ accessOutcome[1].threw /\ accessOutcome[1].signed = <<>>

\* the client supplied no credential at all and the server only its IAM pair
OnlyServerIAM ==
  /\ access.bedrockBearerToken = "" /\ access.bedrockAccessKeyId = ""
  /\ access.bedrockSecretAccessKey = "" /\ access.bedrockSessionToken = ""
  /\ serverEnv.BEDROCK_BEARER_TOKEN = ""
  /\ CandidatePopulated(4)
ServerRegion == IF serverEnv.BEDROCK_REGION # "" THEN serverEnv.BEDROCK_REGION ELSE "us-east-1"

\* C21 (SpecAuth): a call made with only the server's IAM pair populated
\* resolves to a sigv4 auth context with the server's credentials; and
\* every auth context resolved from the server's bearer token or IAM pair
\* has the server's region, or us-east-1 when the server has none,
\* whatever region the client supplied, and the request is signed for
\* that region.
C21_ServerCredentialsUseServerRegion ==
  AccessResolved =>
    /\ OnlyServerIAM => CandidateUsed(accessOutcome[1].auth[1], 4)
    /\ (CandidateUsed(accessOutcome[1].auth[1], 3) \/ CandidateUsed(accessOutcome[1].auth[1], 4))
         => /\ accessOutcome[1].auth[1].region = ServerRegion
            /\ \A i \in 1..Len(accessOutcome[1].signed) : accessOutcome[1].signed[i].client.region = ServerRegion
C21_Witness ==
  /\ AccessResolved /\ OnlyServerIAM
  /\ access.bedrockRegion # "" /\ serverEnv.BEDROCK_REGION = ""
  /\ accessOutcome[1].auth[1].type = "sigv4"
  /\ accessOutcome[1].auth[1].region = "us-east-1"
  /\ Len(accessOutcome[1].signed) = 1

(***************************************************************************)
(* Two calls at once.                                                      *)
(***************************************************************************)
\* what the transform of a call run alone holds after the chunks of the
\* sizes ns[i..] of body, starting from the state d at offset pos
RECURSIVE AloneTransformFrom(_, _, _, _, _)
AloneTransformFrom(body, ns, i, pos0, d) ==
  IF i > Len(ns) \/ d.failed # "" THEN d
  ELSE CHOOSE result \in
         { AloneTransformFrom(body, ns, i + 1, pos0 + ns[i],
                              [buffer |-> t.buffer,
                               failed |-> (IF t.threw THEN t.error ELSE ""),
                               sse |-> d.sse \o t.enqueued])
           : t \in {Transform(d.buffer, SubSeq(body, pos0 + 1, pos0 + ns[i]))} } : TRUE
AloneTransform(body, ns) == AloneTransformFrom(body, ns, 1, 0, [buffer |-> <<>>, failed |-> "", sse |-> <<>>])
\* what the parse function of a call run alone holds after the events evs[i..n]
RECURSIVE AloneParseFrom(_, _, _, _)
AloneParseFrom(evs, i, n, p) ==
  IF i > n THEN p
  ELSE CHOOSE result \in
         { AloneParseFrom(evs, i + 1, n,
                          [hasErrored |-> r.hasErrored, currentToolUseId |-> r.currentToolUseId,
                           particles |-> p.particles \o r.out])
           : r \in {ParseFunction(p.hasErrored, p.currentToolUseId, evs[i])} } : TRUE
AloneParse(evs, n) ==
  AloneParseFrom(evs, 1, n, [hasErrored |-> FALSE, currentToolUseId |-> <<>>, particles |-> <<>>])
CallAsAlone(c) ==
  \E d \in {AloneTransform(calls[c].stream, calls[c].chunks)} :
    \E p \in {AloneParse(d.sse, calls[c].nParsed)} :
      /\ calls[c].sse = d.sse /\ calls[c].buffer = d.buffer /\ calls[c].failed = d.failed
      /\ calls[c].particles = p.particles
      /\ calls[c].hasErrored = p.hasErrored /\ calls[c].currentToolUseId = p.currentToolUseId

\* C22 (SpecCalls): under every interleaving of the chunks and events of
\* two calls, each call has enqueued the events, emitted the particles and
\* holds the byte buffer, error flag and open tool-call id that a call run
\* alone has after the same chunks of its body and the same number of its
\* events.
C22_CallsAreIndependent == \A c \in DOMAIN calls : CallAsAlone(c)
C22_Witness ==
  /\ DOMAIN calls = {1, 2}
  /\ calls[1].currentToolUseId # <<>> /\ calls[1].buffer # <<>>
  /\ calls[2].nParsed >= 2 /\ calls[2].currentToolUseId = <<>>
  /\ calls[2].buffer # <<>> /\ calls[2].buffer # calls[1].buffer
  /\ Len(calls[2].particles) = 1

(***************************************************************************)
(* Properties of the adapter over the whole request.                       *)
(***************************************************************************)
AdapterCalled == converse # <<>>
SystemParts == IF chatGenerate.systemMessage = <<>> THEN <<>> ELSE chatGenerate.systemMessage[1].parts
\* the text a system part stands for in the text-only system channel
SystemTextOf(part) == IF part.pt = "text" THEN part.text ELSE part.asString
\* the system parts of the kinds ks, in their order
RECURSIVE SystemPartsOfKinds(_, _)
SystemPartsOfKinds(ks, i) ==
  IF i > Len(SystemParts) THEN <<>>
  ELSE (IF SystemParts[i].pt \in ks THEN <<SystemParts[i]>> ELSE <<>>) \o SystemPartsOfKinds(ks, i + 1)
TextualSystemParts == SystemPartsOfKinds({"text", "doc"}, 1)
\* the wire request has one system block for each textual system part
SystemIsTheTextualParts ==
  IF TextualSystemParts = <<>> THEN converse[1].system = <<>>
  ELSE /\ converse[1].system # <<>>
       /\ converse[1].system[1] = [p \in 1..Len(TextualSystemParts) |-> [text |-> SystemTextOf(TextualSystemParts[p])]]
NoWireRequest == converse[1].threw /\ converse[1].error # "" /\ DOMAIN converse[1] = {"threw", "error"}

\* C23 as stated (SpecRequest): a system message with a part that is
\* neither text nor document makes the adapter fail and return no wire
\* request; a request that is returned has a system block for every part
\* of the system message.
C23_NonTextSystemPartFails ==
  AdapterCalled =>
    /\ (\E i \in 1..Len(SystemParts) : SystemParts[i].pt \notin {"text", "doc"}) => NoWireRequest
    /\ ~converse[1].threw => /\ SystemIsTheTextualParts
                             /\ Len(TextualSystemParts) = Len(SystemParts)

\* C23 amended (SpecRequest): a system message with a part that is neither
\* text, document nor cache-control marker makes the adapter fail and
\* return no wire request; a request that is returned has a system block
\* for every text and document part, in order, and the only parts left
\* out are cache-control markers.
C23_UnsupportedSystemPartFails ==
  AdapterCalled =>
    /\ (\E i \in 1..Len(SystemParts) : SystemParts[i].pt \notin {"text", "doc", "meta_cache_control"})
         => NoWireRequest
    /\ ~converse[1].threw =>
         /\ SystemIsTheTextualParts
         /\ \A i \in 1..Len(SystemParts) : SystemParts[i].pt \in {"text", "doc", "meta_cache_control"}
C23_Witness ==
  /\ AdapterCalled /\ Len(SystemParts) = 2
  /\ SystemParts[1].pt = "text" /\ SystemParts[2].pt = "inline_image"
  /\ Len(chatGenerate.chatSequence) = 1 /\ Len(chatGenerate.tools) = 1
  /\ NoWireRequest
  /\ converse[1].error = "Bedrock Converse: images cannot be in system messages"

Tools == chatGenerate.tools
\* the function_call definitions among the tools from i on, in their order
RECURSIVE FunctionCallsFrom(_)
FunctionCallsFrom(i) ==
  IF i > Len(Tools) THEN <<>>
  ELSE (IF Tools[i].type = "function_call" THEN <<Tools[i]>> ELSE <<>>) \o FunctionCallsFrom(i + 1)
WireToolNames(toolConfig) == [t \in 1..Len(toolConfig.tools) |-> toolConfig.tools[t].toolSpec.name]

\* C24 (SpecRequest): tool definitions of kind code_execution never make
\* the adapter fail; the wire tools are the function_call definitions, one
\* toolSpec each, in their original order; and a request with no
\* function_call definition has no toolConfig, whatever its tools policy.
C24_CodeExecutionToolsAreDropped ==
  AdapterCalled =>
    /\ (converse[1].threw => \/ \E i \in 1..Len(SystemParts) : SystemParts[i].pt \notin {"text", "doc", "meta_cache_control"}
                             \/ ChatMessages(chatGenerate.chatSequence).threw)
    /\ ~converse[1].threw =>
         IF FunctionCallsFrom(1) = <<>>
         THEN converse[1].toolConfig = <<>>
         ELSE /\ converse[1].toolConfig # <<>>
              /\ WireToolNames(converse[1].toolConfig[1]) = [t \in 1..Len(FunctionCallsFrom(1)) |-> FunctionCallsFrom(1)[t].name]
C24_Witness ==
  /\ AdapterCalled /\ ~converse[1].threw
  /\ Len(Tools) = 3 /\ Tools[2].type = "code_execution"
  /\ chatGenerate.toolsPolicy # <<>>
  /\ converse[1].toolConfig # <<>>
  /\ WireToolNames(converse[1].toolConfig[1]) = <<"f2", "f1">>

\* the sampling parameters that are set to a number on the canonical model
SetParameters == {key \in {"maxTokens", "temperature", "topP"} : aixModel[key].k = "number"}

\* C25 (SpecRequest): the wire request has no inferenceConfig when none of
\* maxTokens, temperature and topP is set on the canonical model, and
\* otherwise an inferenceConfig with exactly the parameters that are set,
\* each with the value of the model.
C25_OnlySetParametersAreSent ==
  (AdapterCalled /\ ~converse[1].threw) =>
    IF SetParameters = {}
    THEN converse[1].inferenceConfig = <<>>
    ELSE /\ converse[1].inferenceConfig # <<>>
         /\ DOMAIN converse[1].inferenceConfig[1] = SetParameters
         /\ \A key \in SetParameters : converse[1].inferenceConfig[1][key] = aixModel[key]
C25_Witness ==
  /\ AdapterCalled /\ ~converse[1].threw
  /\ aixModel.maxTokens.k = "undefined" /\ aixModel.topP.k = "undefined"
  /\ aixModel.temperature = [k |-> "number", v |-> 0]
  /\ converse[1].inferenceConfig # <<>>
  /\ DOMAIN converse[1].inferenceConfig[1] = {"temperature"}
  /\ converse[1].inferenceConfig[1].temperature.v = 0

(***************************************************************************)
(* Properties of the stream parser: message start and the two scenarios.   *)
(***************************************************************************)
AssistantRole == event_MessageStart_schema(JSONParse(T_roleAssistant).doc).role
\* a messageStart event that passes its schema with a role other than assistant
StartWithOtherRole(ev) ==
  /\ ev.named /\ ev.name = S_messageStart /\ IsJson(ev)
  /\ event_MessageStart_schema(JSONParse(ev.data).doc).ok
  /\ event_MessageStart_schema(JSONParse(ev.data).doc).role # AssistantRole

\* C26 (SpecParser): a messageStart event with a role that is a string
\* other than assistant, handled by a parser that has not errored, emits
\* no particle and leaves the parser in the state a messageStart with role
\* assistant leaves it in: error flag unset, open tool-call id as it was.
C26_OtherRoleStartIsOnlyWarned ==
  (Called /\ ~lastCall.preErrored /\ StartWithOtherRole(lastCall.ev)) =>
    /\ lastCall.out = <<>>
    /\ Len(particles) = lastCall.preLen
    /\ ~hasErrored
    /\ \E r \in {ParseFunction(FALSE, lastCall.preToolUseId, Ev(S_messageStart, T_roleAssistant))} :
         /\ r.out = <<>>
         /\ hasErrored = r.hasErrored
         /\ currentToolUseId = r.currentToolUseId
C26_Witness ==
  /\ nCalls = 2 /\ lastCall.ev = Ev(S_messageStart, T_roleUser)
  /\ ~lastCall.preErrored /\ lastCall.preToolUseId = <<"t1">>
  /\ currentToolUseId = <<"t1">> /\ ~hasErrored /\ Len(particles) = 1

(***************************************************************************)
(* Properties of the non-streaming parser.                                 *)
(***************************************************************************)
ResponseParsed == nsOutcome # <<>> /\ ~nsOutcome[1].threw
ResponseParticles == nsOutcome[1].out
ResponseBlocks == fullData.doc.v.output.v.message.v.content.v
\* what a particle is and what it is about: the text, or the tool-call id
About(p) == IF p[1] \in {"text-append", "tool-call-start"} THEN <<p[1], p[2]>> ELSE <<p[1]>>
\* the particles the claim has for the blocks from i on
RECURSIVE BlockParticlesClaimedFrom(_)
BlockParticlesClaimedFrom(i) ==
  IF i > Len(ResponseBlocks) THEN <<>>
  ELSE (IF "text" \in DOMAIN ResponseBlocks[i].v
        THEN <<<<"text-append", ResponseBlocks[i].v.text.v>>>>
        ELSE IF "toolUse" \in DOMAIN ResponseBlocks[i].v
        THEN <<<<"tool-call-start", ResponseBlocks[i].v.toolUse.v.toolUseId.v>>, <<"part-end">>>>
        ELSE <<>>)
       \o BlockParticlesClaimedFrom(i + 1)
ResponseAbout == [i \in 1..Len(ResponseParticles) |-> About(ResponseParticles[i])]
NeverStreamEnded == \A i \in 1..Len(ResponseParticles) : ResponseParticles[i][1] # "stream-ended"

\* C27 as stated (SpecResponse): for a response the schema accepts the
\* particles are those of the content blocks in their order (text-append
\* for a text block, tool-call-start and part-end for a tool-use block),
\* then one stop-reason, then one metrics-update, and none is stream-ended.
C27_BlocksThenStopReasonThenMetrics ==
  ResponseParsed =>
    /\ ResponseAbout = BlockParticlesClaimedFrom(1) \o <<<<"stop-reason">>, <<"metrics-update">>>>
    /\ NeverStreamEnded

\* C27 amended (SpecResponse): for a response the schema accepts the
\* particles are those of the content blocks in their order, then one
\* stop-reason when the stop reason of the response is one of the six
\* known ones and none otherwise, then one metrics-update, and none is
\* stream-ended.
C27_BlocksThenKnownStopReasonThenMetrics ==
  ResponseParsed =>
    /\ ResponseAbout =
         BlockParticlesClaimedFrom(1)
         \o (IF fullData.doc.v.stopReason.v \in KnownStopReasons THEN <<<<"stop-reason">>>> ELSE <<>>)
         \o <<<<"metrics-update">>>>
    /\ fullData.doc.v.stopReason.v \in KnownStopReasons
         => ResponseParticles[Len(ResponseParticles) - 1]
              = <<"stop-reason", CanonicalOf(fullData.doc.v.stopReason.v)>>
    /\ NeverStreamEnded
C27_Witness ==
  /\ ResponseParsed /\ Len(ResponseBlocks) = 3
  /\ fullData.doc.v.stopReason.v = "tool_use"
  /\ ResponseAbout = << <<"text-append", "b1">>, <<"tool-call-start", "u2">>, <<"part-end">>,
                        <<"text-append", "b3">>, <<"stop-reason">>, <<"metrics-update">> >>
  /\ ResponseParticles[5] = P_setTokenStopReason("ok-tool_invocations")

(***************************************************************************)
(* C28, C29: the two streamed scenarios                                    *)
(***************************************************************************)
\* the events of the call after an optional messageStart of the assistant
CallEvents ==
  IF Len(sse) > 0 /\ sse[1] = Ev(S_messageStart, T_roleAssistant) THEN Tail(sse) ELSE sse
AllParsed == nParsed = Len(sse)
IsPrefixOf(s, t) == Len(s) <= Len(t) /\ s = SubSeq(t, 1, Len(s))
ToolUseIdOf(data) == IF data = T_startTool1 THEN "t1" ELSE "t2"
ToolNameOf(data) == IF data = T_startTool1 THEN "f" ELSE "g"
ToolInputOf(data) == IF data = T_deltaTool THEN "{" ELSE "}"
DeltaTextOf(data) == IF data = T_deltaText THEN "a" ELSE "b"

\* contentBlockStart with a toolUse id, N tool-input deltas, contentBlockStop,
\* messageStop with stopReason tool_use
IsOneToolCall(evs) ==
  /\ Len(evs) >= 3
  /\ evs[1].named /\ evs[1].name = S_contentBlockStart /\ evs[1].data \in ToolStarts
  /\ \A i \in 2..(Len(evs) - 2) :
        evs[i].named /\ evs[i].name = S_contentBlockDelta /\ evs[i].data \in ToolDeltas
  /\ evs[Len(evs) - 1] = Ev(S_contentBlockStop, T_blockStop)
  /\ evs[Len(evs)] = Ev(S_messageStop, T_stopToolUse)
OneToolCallParticles(evs) ==
     << <<"tool-call-start", ToolUseIdOf(evs[1].data), ToolNameOf(evs[1].data)>> >>
  \o [i \in 1..(Len(evs) - 3) |->
        <<"tool-call-arg-append", ToolUseIdOf(evs[1].data), ToolInputOf(evs[i + 1].data)>>]
  \o << <<"part-end">>, <<"stop-reason", "ok-tool_invocations">>, <<"stream-ended", "done-dialect">> >>

\* C28: for a streamed call of one tool (contentBlockStart with a toolUse id, N
\* tool-input deltas, contentBlockStop, messageStop with stopReason tool_use) the
\* particles are exactly tool-call-start(id), N times tool-call-arg-append(id) with
\* the inputs in order, part-end, stop-reason(ok with tool invocations),
\* stream-ended; while the events are being parsed the particles are a prefix of it
C28_OneToolCallParticles ==
  IsOneToolCall(CallEvents) =>
    /\ IsPrefixOf(particles, OneToolCallParticles(CallEvents))
    /\ AllParsed => particles = OneToolCallParticles(CallEvents)
\* a whole call of one tool with at least two input deltas has been parsed
C28_Witness ==
  /\ IsOneToolCall(CallEvents) /\ Len(CallEvents) >= 5 /\ AllParsed
  /\ CallEvents[2].data # CallEvents[3].data
  /\ Len(particles) = Len(CallEvents) + 1

\* N text deltas, then messageStop with stopReason end_turn
IsTextAnswer(evs) ==
  /\ Len(evs) >= 1
  /\ \A i \in 1..(Len(evs) - 1) :
        evs[i].named /\ evs[i].name = S_contentBlockDelta /\ evs[i].data \in TextDeltas
  /\ evs[Len(evs)] = Ev(S_messageStop, T_stopEndTurn)
TextAnswerParticles(evs) ==
     [i \in 1..(Len(evs) - 1) |-> <<"text-append", DeltaTextOf(evs[i].data)>>]
  \o << <<"stop-reason", "ok">>, <<"stream-ended", "done-dialect">> >>

\* C29: for a streamed call of N text deltas followed by messageStop with
\* stopReason end_turn the particles are exactly N times text-append, one per
\* delta and in the order of the deltas, then stop-reason(ok), then stream-ended
C29_TextAnswerParticles ==
  IsTextAnswer(CallEvents) =>
    /\ IsPrefixOf(particles, TextAnswerParticles(CallEvents))
    /\ AllParsed => particles = TextAnswerParticles(CallEvents)
\* a whole text answer of at least two different deltas has been parsed
C29_Witness ==
  /\ IsTextAnswer(CallEvents) /\ Len(CallEvents) >= 3 /\ AllParsed
  /\ CallEvents[1].data # CallEvents[2].data
  /\ Len(particles) = Len(CallEvents) + 1

(***************************************************************************)
(* C30: 'chunk' frames                                                     *)
(***************************************************************************)
IsChunkFrame(f) ==
  /\ HeadersGet(f.headers, S_eventType) = <<S_chunk>>
  /\ HeadersGet(f.headers, S_messageType) \notin {<<S_exception>>, <<S_error>>}
\* the base64 text a wrapper carries, under 'bytes' or under 'chunk.bytes'
WrappedBase64(payload) ==
  CASE payload \in {T_wrapBytes, T_wrapChunkBytes} -> T_b64InnerStop
    [] payload = T_wrapNoType -> T_b64EmptyObj
    [] payload = T_wrapNotJson -> T_b64NotJson
WrapsBase64(payload) == payload \in {T_wrapBytes, T_wrapChunkBytes, T_wrapNoType, T_wrapNotJson}
\* base64 of a sequence of bytes, written from the definition of the encoding
Base64Char(v) ==
  IF v < 26 THEN 65 + v
  ELSE IF v < 52 THEN 97 + (v - 26)
  ELSE IF v < 62 THEN 48 + (v - 52)
  ELSE IF v = 62 THEN 43 ELSE 47
Base64Group(b, i) ==
  LET n == Len(b) - i + 1
      b1 == b[i]
      b2 == IF n >= 2 THEN b[i + 1] ELSE 0
      b3 == IF n >= 3 THEN b[i + 2] ELSE 0
  IN  << Base64Char(b1 \div 4),
         Base64Char((b1 % 4) * 16 + (b2 \div 16)),
         IF n >= 2 THEN Base64Char((b2 % 16) * 4 + (b3 \div 64)) ELSE 61,
         IF n >= 3 THEN Base64Char(b3 % 64) ELSE 61 >>
RECURSIVE Base64EncodeFrom(_, _)
Base64EncodeFrom(b, i) ==
  IF i > Len(b) THEN <<>> ELSE Base64Group(b, i) \o Base64EncodeFrom(b, i + 3)
Base64Encode(b) == Base64EncodeFrom(b, 1)
\* the type an inner payload states: 'message_stop' for '{"type":"message_stop"}',
\* none for '{}' and for a payload that is not JSON
InnerTypeName(inner) == IF inner = T_innerStop THEN S_message_stop ELSE S_event

\* C30: a 'chunk' frame whose payload is JSON wrapping base64 text (under 'bytes'
\* or 'chunk.bytes') enqueues exactly one event; its data is the text the base64
\* encodes, and its name is the 'type' of that inner JSON, or 'event' when the
\* inner payload states no type or is not JSON; the events enqueued are those of
\* the frames, in order
C30_ChunkFrameEmitsInnerEvent ==
  /\ sse = EventsOf(frames)
  /\ \A i \in 1..Len(frames) :
       (IsChunkFrame(frames[i]) /\ WrapsBase64(frames[i].payload)) =>
          /\ Len(frames[i].events) = 1
          /\ frames[i].events[1].named
          /\ Base64Encode(frames[i].events[1].data) = WrappedBase64(frames[i].payload)
          /\ frames[i].events[1].name = InnerTypeName(frames[i].events[1].data)
\* the four frames of a stream are decoded: a wrapper that is not JSON, a wrapper
\* with 'chunk.bytes' around a typed payload, a wrapper with no bytes, a wrapper
\* around a payload that is not JSON
C30_Witness ==
  /\ failed = "" /\ Len(frames) = 4
  /\ IsChunkFrame(frames[2]) /\ frames[2].payload = T_wrapChunkBytes
  /\ IsChunkFrame(frames[4]) /\ frames[4].payload = T_wrapNotJson
  /\ sse = <<Ev(S_error, T_transformError), Ev(S_message_stop, T_innerStop), Ev(S_event, <<111, 111, 112, 115>>)>>

(***************************************************************************)
(* C31: metadata events                                                    *)
(***************************************************************************)
HandledMetadata ==
  /\ Called /\ ~lastCall.preErrored
  /\ lastCall.ev.named /\ lastCall.ev.name = S_metadata /\ ~Raises(lastCall.ev)
MetadataDoc == JSONParse(lastCall.ev.data).doc
\* the latency the event reports: <<latencyMs>>, or <<>> when it has no metrics
ReportedLatency ==
  IF Has(MetadataDoc, "metrics") THEN <<MetadataDoc.v.metrics.v.latencyMs.v>> ELSE <<>>

\* C31 (SpecParser): a metadata event whose payload passes the schema, handled
\* by a parser that has not errored, emits exactly one metrics-update particle
\* with the input and the output token counts of the event, and with the
\* provider latency whenever the event reports one.
C31_MetadataEmitsMetrics ==
  HandledMetadata =>
    lastCall.out = << <<"metrics-update", MetadataDoc.v.usage.v.inputTokens.v,
                        MetadataDoc.v.usage.v.outputTokens.v, ReportedLatency>> >>

(***************************************************************************)
(* C32: the retained buffer                                                *)
(***************************************************************************)
\* the offset in the stream behind n frames, walking the total lengths the
\* stream declares from offset o on
RECURSIVE OffsetBehind(_, _)
OffsetBehind(o, n) == IF n = 0 THEN o ELSE OffsetBehind(o + GetUint32(stream, o), n - 1)
Received == SubSeq(stream, 1, pos)
SuffixOfReceived(o) == SubSeq(Received, o + 1, Len(Received))
\* the buffer does not start with a complete frame
NoCompleteFrameIn(buf) == Len(buf) < 12 \/ Len(buf) < GetUint32(buf, 0)

\* C32 (SpecStream): while the transform has not failed, after each chunk the
\* buffer is the suffix of the input received so far that follows the last
\* decoded frame, that frame ends at the sum of the total lengths of the
\* decoded frames, which is where the total lengths declared in the stream
\* lead; the suffix does not start with a complete frame (it is shorter than
\* 12 bytes or than the total length it declares) and is shorter than 25 MB.
C32_BufferIsTheUndecodedSuffix ==
  failed = "" =>
    /\ headAt = TotalLengthFrom(frames, 1)
    /\ headAt = OffsetBehind(0, Len(frames))
    /\ headAt <= pos
    /\ buffer = SuffixOfReceived(headAt)
    /\ NoCompleteFrameIn(buffer)
    /\ Len(buffer) < MAX_MESSAGE_LENGTH
\* two frames were decoded, in different chunks or in one, and bytes of a third
\* frame are retained: its prelude and less than the length it declares
C32_Witness ==
  /\ failed = "" /\ Len(frames) = 2 /\ headAt > 0
  /\ Len(buffer) >= 12 /\ Len(buffer) < GetUint32(buffer, 0)
  /\ buffer = SubSeq(stream, headAt + 1, pos)

(***************************************************************************)
(* C33: decoding stays inside the frame                                    *)
(***************************************************************************)
\* C33 (SpecStream): decoding a frame whose total length is within bounds
\* never fails (the transform fails on a bad total length only), the headers
\* it reads are those of the frame's own header block, and the payload range
\* does not start after its end.
C33_FrameDecodingStaysInFrame ==
  /\ failed \in {"", "Invalid frame total_length"}
  /\ \A i \in 1..Len(frames) :
       /\ frames[i].headers = HeaderBlockWalk(StreamHeaderBlock(StartOf(i)), 1, <<>>).headers
       /\ PRELUDE_LENGTH + StreamHeadersLength(StartOf(i))
            <= StreamTotalLength(StartOf(i)) - MESSAGE_CRC_LENGTH

(***************************************************************************)
(* C34: one event per frame, in the order of the frames                    *)
(***************************************************************************)
EventTypeOf(f) == HeadersGet(f.headers, S_eventType)
MessageTypeOf(f) == HeadersGet(f.headers, S_messageType)
HasConverseEventType(f) == \E t \in ConverseEventTypes : EventTypeOf(f) = <<t>>
\* the event type is missing, or is none of those the transform handles
HasNoKnownEventType(f) ==
  \A t \in ConverseEventTypes \cup BedrockExceptionTypes \cup {S_chunk} : EventTypeOf(f) # <<t>>
IsExceptionOrError(f) == MessageTypeOf(f) \in {<<S_exception>>, <<S_error>>}
\* the events enqueued are those of the decoded frames in the order of the
\* frames, at most one per frame, and the i-th decoded frame is the i-th
\* frame of the byte stream
EventsFollowFrames ==
  /\ sse = EventsOf(frames)
  /\ \A i \in 1..Len(frames) :
       /\ Len(frames[i].events) <= 1
       /\ frames[i].totalLength = StreamTotalLength(StartOf(i))
\* decoding went on for as long as the input received holds a complete frame
DecodingWentOn == failed = "" => NoCompleteFrameIn(SuffixOfReceived(TotalLengthFrom(frames, 1)))

\* C34 as stated (SpecStream): at most one event per decoded frame, in the order
\* of the frames; a frame with a Converse event type yields exactly one event of
\* that name with the payload unchanged; a frame with an unrecognized or missing
\* event type yields no event, and later frames are still decoded.
C34_OneEventPerFrameInOrder ==
  /\ EventsFollowFrames
  /\ DecodingWentOn
  /\ \A i \in 1..Len(frames) :
       /\ HasConverseEventType(frames[i])
            => frames[i].events = <<Ev(EventTypeOf(frames[i])[1], frames[i].payload)>>
       /\ HasNoKnownEventType(frames[i]) => frames[i].events = <<>>

\* C34 amended (SpecStream): the same for the frames whose message type is
\* neither exception nor error; a frame of those message types yields one
\* event named 'error', whatever its event type.
C34_OneEventPerEventFrameInOrder ==
  /\ EventsFollowFrames
  /\ DecodingWentOn
  /\ \A i \in 1..Len(frames) :
       /\ (HasConverseEventType(frames[i]) /\ ~IsExceptionOrError(frames[i]))
            => frames[i].events = <<Ev(EventTypeOf(frames[i])[1], frames[i].payload)>>
       /\ (HasNoKnownEventType(frames[i]) /\ ~IsExceptionOrError(frames[i]))
            => frames[i].events = <<>>
       /\ IsExceptionOrError(frames[i])
            => Len(frames[i].events) = 1 /\ frames[i].events[1].name = S_error
\* a frame of an unknown event type and a frame with no headers were decoded
\* with no event, and the messageStop frame behind them gave its event
C34_Witness ==
  /\ failed = "" /\ Len(frames) = 3
  /\ EventTypeOf(frames[1]) = <<S_ping>> /\ EventTypeOf(frames[2]) = <<>>
  /\ frames[1].events = <<>> /\ frames[2].events = <<>>
  /\ sse = <<Ev(S_messageStop, T_stopEndTurn)>>

(***************************************************************************)
(* C35: the stop-reason mapping                                            *)
(***************************************************************************)
\* the mapping as the claim gives it, with the values the code has for ok with
\* tool calls ('ok-tool_invocations') and for filtered ('filter-content')
ClaimedStopReason ==
  [r \in KnownStopReasons |->
     CASE r = "end_turn" -> "ok"
       [] r = "stop_sequence" -> "ok"
       [] r = "tool_use" -> "ok-tool_invocations"
       [] r = "max_tokens" -> "out-of-tokens"
       [] r = "guardrail_intervened" -> "filter-content"
       [] r = "content_filtered" -> "filter-content"]
\* the messageStop payload of a stop reason
StopTextOf ==
  [r \in KnownStopReasons |->
     CASE r = "end_turn" -> T_stopEndTurn
       [] r = "stop_sequence" -> T_stopStopSequence
       [] r = "tool_use" -> T_stopToolUse
       [] r = "max_tokens" -> T_stopMaxTokens
       [] r = "guardrail_intervened" -> T_stopGuardrail
       [] r = "content_filtered" -> T_stopFiltered]
ResponseStopReason == fullData.doc.v.stopReason.v
StopReasonParticlesOf(ps) == SelectSeq(ps, LAMBDA p : p[1] = "stop-reason")

\* C35 (SpecResponse): the mapping gives ok for end_turn and stop_sequence, ok
\* with tool calls for tool_use, out-of-tokens for max_tokens and filtered for
\* guardrail_intervened and content_filtered; the non-streaming parser emits
\* that value for the stop reason of the response it parsed, and the streaming
\* parser emits the same value for a messageStop event of the same stop reason.
C35_StopReasonMapping ==
  /\ \A r \in KnownStopReasons : FromConverseStopReason(r) = <<ClaimedStopReason[r]>>
  /\ (ResponseParsed /\ ResponseStopReason \in KnownStopReasons) =>
       /\ StopReasonParticlesOf(ResponseParticles) = << <<"stop-reason", ClaimedStopReason[ResponseStopReason]>> >>
       /\ StopReasonParticlesOf(ParseFunction(FALSE, <<>>, Ev(S_messageStop, StopTextOf[ResponseStopReason])).out)
            = StopReasonParticlesOf(ResponseParticles)
\* a response that stopped on a guardrail was parsed
C35_Witness ==
  /\ ResponseParsed /\ ResponseStopReason = "guardrail_intervened"
  /\ \E i \in 1..Len(ResponseParticles) : ResponseParticles[i] = <<"stop-reason", "filter-content">>

(***************************************************************************)
(* C36: 'chunk' frames that cannot be decoded                              *)
(***************************************************************************)
\* the payload is not JSON ('oops'), or is JSON whose bytes are not base64 ('!!!!')
IsUndecodableChunk(f) == IsChunkFrame(f) /\ f.payload \in {T_notJson, T_wrapInvalid}
\* the payload is JSON with no bytes field ('{}')
IsChunkWithoutBytes(f) == IsChunkFrame(f) /\ f.payload = T_emptyObj

IsSkippedPart(role, part) ==
  \/ part.pt = "meta_cache_control"
  \/ role = "model" /\ part.pt \in {"ma", "inline_audio", "inline_image"}
  \/ role = "model" /\ part.pt = "tool_invocation" /\ part.invocation.type = "code_execution"
  \/ role = "user" /\ part.pt = "meta_in_reference_to" /\ part.asXMLString = ""
\* message m has no parts, or only parts that are skipped
HasNoContent(m) ==
  \A p \in 1..Len(ChatSequence[m].parts) : IsSkippedPart(ChatSequence[m].role, ChatSequence[m].parts[p])
ProducingBetween(m1, m2) == \E k \in (m1 + 1)..(m2 - 1) : Produces(k)

\* C37 (SpecAdapter): every wire message has at least one content block; a
\* canonical message with no parts, or with skipped parts only, has no block in
\* any wire message; and two messages of the same wire role with nothing but
\* such messages between them, and no flush marker, share one wire message.
C37_NoEmptyWireMessage ==
  Adapted =>
    /\ \A j \in 1..Len(Wire) : Len(Wire[j].content) >= 1
    /\ \A m \in 1..Len(ChatSequence) : HasNoContent(m) <=> ~Produces(m)
    /\ \A m1 \in 1..Len(ChatSequence) : \A m2 \in (m1 + 1)..Len(ChatSequence) :
         ( /\ Produces(m1) /\ Produces(m2) /\ ~ProducingBetween(m1, m2)
           /\ MapRole(ChatSequence[m1].role) = MapRole(ChatSequence[m2].role)
           /\ ~FlushBetween(m1, m2) )
         => LastWireOf(m1) = FirstWireOf(m2)
\* a user message, a model message with an image and a code execution only,
\* a user message: one wire message of two blocks
C37_Witness ==
  /\ Adapted /\ Len(ChatSequence) = 3
  /\ ChatSequence[1].role = "user" /\ ChatSequence[3].role = "user"
  /\ ChatSequence[2].role = "model" /\ Len(ChatSequence[2].parts) = 2 /\ HasNoContent(2)
  /\ ChatSequence[2].parts[2].pt = "tool_invocation"
  /\ Produces(1) /\ Produces(3)
  /\ Len(Wire) = 1 /\ Len(Wire[1].content) = 2

(***************************************************************************)
(* C38: the access object never mixes the two kinds of credentials         *)
(***************************************************************************)
AccessBuilt == transportAccess # <<>>
Built == transportAccess[1]
\* a setting of the client that is set: a text that is not empty
IsSet(field) ==
  partialSetup # <<>> /\ partialSetup[1][field].k = "string" /\ partialSetup[1][field].v # ""
CarriesBearer == Built.bedrockBearerToken # Str("")
CarriesIAM ==
  \/ Built.bedrockAccessKeyId # Str("")
  \/ Built.bedrockSecretAccessKey # Str("")
  \/ Built.bedrockSessionToken # Nil

\* C38 (SpecVendor): the access object built by getTransportAccess never
\* carries a bearer token together with IAM credentials: with a bearer token
\* set it carries that token, an empty key id, an empty secret and a null
\* session token; with none set its bearer field is empty; and clientSideFetch
\* is true only when a bearer token or both IAM keys are set and csf is on.
C38_BearerAndIAMNeverTogether ==
  AccessBuilt =>
    /\ ~(CarriesBearer /\ CarriesIAM)
    /\ IsSet("bedrockBearerToken") =>
         /\ Built.bedrockBearerToken = partialSetup[1].bedrockBearerToken
         /\ Built.bedrockAccessKeyId = Str("")
         /\ Built.bedrockSecretAccessKey = Str("")
         /\ Built.bedrockSessionToken = Nil
    /\ ~IsSet("bedrockBearerToken") => Built.bedrockBearerToken = Str("")
    /\ Built.clientSideFetch =>
         /\ IsSet("bedrockBearerToken") \/ (IsSet("bedrockAccessKeyId") /\ IsSet("bedrockSecretAccessKey"))
         /\ partialSetup[1].csf = Bool(TRUE)
\* every setting is set and csf is on: the access carries the bearer token only
C38_Witness ==
  /\ AccessBuilt
  /\ IsSet("bedrockBearerToken") /\ IsSet("bedrockAccessKeyId")
  /\ IsSet("bedrockSecretAccessKey") /\ IsSet("bedrockSessionToken")
  /\ partialSetup[1].csf = Bool(TRUE)
  /\ CarriesBearer /\ ~CarriesIAM /\ Built.clientSideFetch

(***************************************************************************)
(* C39: the middleware protects /dashboard and what lies under /admin/     *)
(***************************************************************************)
Handled == response # <<>>
\* "/dashboard", "/admin/"
PathDashboard == <<47, 100, 97, 115, 104, 98, 111, 97, 114, 100>>
PathAdminSlash == <<47, 97, 100, 109, 105, 110, 47>>
IsProtectedPath(pathname) == pathname = PathDashboard \/ StartsWith(pathname, PathAdminSlash)
\* the authorization header decodes to 'username:password' of the environment
DecodesToConfigured(authorization) ==
  /\ authEnv.AUTH_USERNAME # <<>> /\ authEnv.AUTH_PASSWORD # <<>>
  /\ DecodeBasicAuth(authorization) = <<authEnv.AUTH_USERNAME[1] \o <<58>> \o authEnv.AUTH_PASSWORD[1]>>
Proceeds == response[1].next
Is401 == ~response[1].next /\ response[1].status = 401

\* C39 (SpecMiddleware): a request whose path is /dashboard or lies under
\* /admin/ proceeds only when its authorization header decodes to the
\* configured username and password, and otherwise gets a 401 response; a
\* request to any other path proceeds.
C39_ProtectedPathsNeedBasicAuth ==
  Handled =>
    /\ IsProtectedPath(request[1].pathname) =>
         /\ Proceeds => DecodesToConfigured(request[1].authorization)
         /\ ~DecodesToConfigured(request[1].authorization) => Is401
    /\ ~IsProtectedPath(request[1].pathname) => Proceeds
=============================================================================
